---- MODULE Spec2Model ----
(***************************************************************************)
(* State-machine model of the note-writing bot (mattiaquiroz/ainotewriter). *)
(*                                                                         *)
(*   Part 1  _rate_limit                 (src/src/note_writer/llm_util.py) *)
(*   Part 2  _retry_with_backoff / _make_request                           *)
(*   Part 3  research_post_and_write_note / verify_and_filter_links        *)
(*   Part 4  search_web_for_recent_info and its cache                      *)
(*   Part 5  extract_urls_from_text                                        *)
(*   Part 6  get_misleading_tags   (src/src/note_writer/misleading_tags.py)*)
(*   Part 7  main, _worker (src/src/main.py) and the processed-ID store    *)
(*           (src/src/cnapi/gist_util.py)                                  *)
(*   Part 8  validate_page_content_with_gemini                             *)
(*   Part 9  get_gemini_search_response                                    *)
(*                                                                         *)
(* Each part has its own specification; the parts share the variables and  *)
(* the pure operators (RateLimitWait, IsRetryable, ...).                   *)
(***************************************************************************)
EXTENDS Integers, Sequences, FiniteSets, TLC

VARIABLES
    \* ---- Part 1: rate limiter, one instance per process, shared by threads
    clock,              \* time.time(), in whole seconds
    last_request_time,  \* global _last_request_time
    workers,            \* the threads of the pool (main.py: concurrency)
    rl_pc,              \* per thread: position inside _rate_limit
    current_time,       \* per thread: local current_time        (line 27)
    time_since_last,    \* per thread: local time_since_last     (line 28)
    wake_at,            \* per thread: when time.sleep returns   (line 33)
    seen,               \* per thread: value of _last_request_time read at line 28
    nread,              \* per thread: number of permits granted when line 28 ran
    rl_started,         \* number of _rate_limit calls started
    permits,            \* log of the calls that returned, in order of line 35
    \* ---- Part 2: _retry_with_backoff around one api_call_func
    rt_pc,              \* position inside _retry_with_backoff
    max_retries,        \* parameter max_retries
    attempt,            \* loop variable attempt
    error_str,          \* str(e) of the exception being handled: its substrings
    rt_result,          \* how the call ended: returned text or raised category
    n_calls,            \* invocations of api_call_func in this request
    n_sleeps,           \* time.sleep calls of the retry loop in this request
    api_at,             \* time of the latest invocation of api_call_func (-1: none)
    api_rl,             \* number of _rate_limit calls returned at the latest invocation
    api_prev_rl,        \* the same at the invocation before it
    api_total,          \* invocations of api_call_func in the whole run
    \* ---- Part 3: research_post_and_write_note for one post
    nw_pc,              \* position inside research_post_and_write_note
    post,               \* the Post: text and media
    media_i,            \* _summarize_images: index of the next media item
    images_summary,     \* _summarize_images: one entry per summarized item
    urls,               \* verify_and_filter_links: the extracted URLs
    url_i,              \* verify_and_filter_links: index of the next URL
    url_log,            \* what happened to each URL checked so far
    valid_urls,         \* verify_and_filter_links: valid_urls
    filtered,           \* filtered_search_results returned by the verifier
    note_or_refusal_str,\* the reply of the note-writing call (line 188)
    tag_retries,        \* get_misleading_tags: retries
    calls,              \* outbound calls made for the post, by purpose
    result,             \* the NoteResult returned
    \* ---- Part 4: search_web_for_recent_info and its cache
    search_cache,       \* global _search_cache: cache_key -> (timestamp, text)
    sw_pc,              \* per thread: position inside search_web_for_recent_info
    sw_query,           \* per thread: parameter query
    cache_key,          \* per thread: local cache_key             (line 278)
    sw_current_time,    \* per thread: local current_time          (line 279)
    expired_keys,       \* per thread: local expired_keys, not yet deleted
    sw_engine,          \* per thread: index of the engine tried next
    sw_tried,           \* per thread: what each engine tried so far did
    sw_found,           \* per thread: the entry of cache_key when the call started
    sw_serial,          \* per thread: number of this call
    sw_started,         \* number of search calls started
    sw_advances,        \* number of times the clock was advanced
    sw_last,            \* the call that just ended, and how (until the next starts)
    \* ---- Part 5: extract_urls_from_text
    ex_pc,              \* position inside extract_urls_from_text
    ex_text,            \* parameter text: the URL mentions in it, in order
    ex_urls,            \* raw_urls, cleaned_urls, unique_urls, normalized_urls in turn
    \* ---- Part 6: get_misleading_tags
    tg_pc,              \* position inside get_misleading_tags
    tg_retries,         \* parameter and loop variable retries
    tg_log,             \* the replies of the attempts made so far
    tg_result,          \* the list returned
    \* ---- Part 7: main, _worker and the processed-ID store (Gist)
    gist,               \* the post IDs stored in post_ids.json of the Gist
    gist_env,           \* are GIST_TOKEN and GIST_ID set
    mn_pc,              \* position inside main
    dry_run,            \* parameter dry_run
    concurrency,        \* parameter concurrency
    processed_post_ids, \* main: local processed_post_ids       (line 112)
    eligible_posts,     \* main: local eligible_posts           (line 116)
    notes_written_by_user, \* main: local notes_written_by_user (line 119)
    mn_log,             \* how the lookup and the fetch of main ended
    new_posts,          \* main: local new_posts                (line 130)
    handed,             \* the posts _worker was invoked for, in order
    wk,                 \* per position in new_posts: the state of its _worker call
    gs_calls,           \* number of direct calls of the store's functions
    gs_last,            \* the latest direct call of a store function and its outcome
    \* ---- Part 8: validate_page_content_with_gemini
    vp_pc,              \* position inside validate_page_content_with_gemini
    vp_url,             \* parameter url
    vp_content,         \* parameter content
    vp_claim,           \* parameter original_claim
    vp_llm_calls,       \* calls of get_gemini_response made by this call
    vp_result,          \* the (is_valid, explanation) returned
    \* ---- Part 9: get_gemini_search_response
    sr_pc,              \* position inside get_gemini_search_response
    sr_query,           \* local search_query: empty or not, and its markers
    sr_web_results,     \* local web_results
    sr_enhanced,        \* local enhanced_prompt, as sent to the gateway
    sr_calls            \* number of calls started

rlVars == <<clock, last_request_time, workers, rl_pc, current_time,
            time_since_last, wake_at, seen, nread, rl_started, permits>>

rtVars == <<rt_pc, max_retries, attempt, error_str, rt_result, n_calls,
            n_sleeps, api_at, api_rl, api_prev_rl, api_total>>

nwVars == <<nw_pc, post, media_i, images_summary, urls, url_i, url_log,
            valid_urls, filtered, note_or_refusal_str, tag_retries, calls, result>>

swVars == <<search_cache, sw_pc, sw_query, cache_key, sw_current_time,
            expired_keys, sw_engine, sw_tried, sw_found, sw_serial, sw_started,
            sw_advances, sw_last>>

exVars == <<ex_pc, ex_text, ex_urls>>

tgVars == <<tg_pc, tg_retries, tg_log, tg_result>>

mnVars == <<gist, gist_env, mn_pc, dry_run, concurrency, processed_post_ids,
            eligible_posts, notes_written_by_user, mn_log, new_posts, handed,
            wk, gs_calls, gs_last>>

vpVars == <<vp_pc, vp_url, vp_content, vp_claim, vp_llm_calls, vp_result>>

srVars == <<sr_pc, sr_query, sr_web_results, sr_enhanced, sr_calls>>

vars == <<rlVars, rtVars, nwVars, swVars, exVars, tgVars, mnVars, vpVars, srVars>>

(***************************************************************************)
(* Bounds                                                                  *)
(***************************************************************************)
MaxTime == 16       \* the clock stops ticking here
MaxCalls == 3       \* _rate_limit calls per run of the rate-limiter model
MaxApiCalls == 4    \* provider calls per run of the retry model
MaxLatency == 0     \* longest duration of one provider call, in seconds
MaxMedia == 2       \* media items of a post
MaxUrls == 2        \* URLs extracted from one search response
MaxSearches == 2    \* search_web_for_recent_info calls per run
MaxAdvances == 2    \* clock advances per run of the search model
MaxAttempt == 4      \* largest attempt index whose failure the backoff model handles
MaxMentions == 3    \* URL mentions in one text given to the extractor
MaxPosts == 2       \* posts of one batch, and IDs in the processed-ID store
MaxGistCalls == 3   \* direct calls of the store's functions per run
MaxPromptCalls == 4 \* get_gemini_search_response calls per run

(***************************************************************************)
(* Part 1: _rate_limit                                                     *)
(***************************************************************************)
min_request_interval == 7

\* time.time() when the process starts: far more than min_request_interval
\* after the initial _last_request_time = 0.
StartTime == min_request_interval

AllWorkers == {"w1", "w2"}

\* lines 30-31: how long the call sleeps
RateLimitWait_NoSleep(since) == 0
RateLimitWait(since) ==
    IF since < min_request_interval THEN min_request_interval - since ELSE 0

\* line 35: the value stored in _last_request_time
StoredTimestamp_Stale(t) == current_time[t]
StoredTimestamp(t) == clock

(***************************************************************************)
(* Part 2: _retry_with_backoff and the api_call closure of _make_request   *)
(* (pure part).  An exception message is modelled by the set of the        *)
(* substrings the handler tests for that occur in it.                      *)
(***************************************************************************)
Main == "w1"        \* the thread that runs the requests of Part 2

Min(a, b) == IF a < b THEN a ELSE b

\* what client.models.generate_content can do (lines 128-135): answer with
\* text, with an empty text, with text None plus block metadata, or raise
ProviderErrors ==
    { {"503", "UNAVAILABLE"},
      {"429", "RESOURCE_EXHAUSTED"},
      {"429", "RESOURCE_EXHAUSTED", "retryDelay", "55s"},
      {"INTERNAL"},
      {} }          \* e.g. "400 INVALID_ARGUMENT": no pattern matches

BlockMetadata ==
    { [block |-> "absent", finish |-> "absent"],
      [block |-> "OTHER", finish |-> "MAX_TOKENS"],
      [block |-> "SAFETY", finish |-> "absent"],
      [block |-> "absent", finish |-> "PROHIBITED_CONTENT"] }

ApiResponses ==
    { [kind |-> "text"], [kind |-> "empty"] }
    \cup { [kind |-> "none", meta |-> m] : m \in BlockMetadata }
    \cup { [kind |-> "raise", msg |-> e] : e \in ProviderErrors }

\* lines 143-162: is a None text a content-filter block
BlockIsContentFilter(m) ==
    \/ m.block \in {"PROHIBITED_CONTENT", "SAFETY"}
    \/ m.finish \in {"SAFETY", "PROHIBITED_CONTENT"}

\* lines 166-172: the message raised for a None text
NoneTextMessage(m) ==
    {"returned None response text"}
       \cup (IF BlockIsContentFilter(m) THEN {"CONTENT_FILTERED:"} ELSE {})

\* lines 127-179: api_call applied to a response of the provider
ApiCall(resp) ==
    CASE resp.kind = "raise" -> [ok |-> FALSE, msg |-> resp.msg]
      [] resp.kind = "none"  -> [ok |-> FALSE, msg |-> NoneTextMessage(resp.meta)]
      [] OTHER               -> [ok |-> TRUE, text |-> resp.kind]

\* line 57
IsContentFiltered(err) == "CONTENT_FILTERED:" \in err

\* lines 58-68
RetryablePatterns ==
    {"429", "RESOURCE_EXHAUSTED", "503", "UNAVAILABLE",
     "returned None response text", "INTERNAL", "UNKNOWN", "timeout", "connection"}

IsRetryable_IgnoreFilter(err) == err \cap RetryablePatterns # {}
IsRetryable(err) ==
    ~IsContentFiltered(err) /\ err \cap RetryablePatterns # {}

\* line 70: retry once more?
ShouldRetry_OffByOne(err, a, m) == IsRetryable(err) /\ a <= m
ShouldRetry(err, a, m) == IsRetryable(err) /\ a < m

\* lines 72-91: the wait before the retry that follows failed attempt a
WaitTime_Uncapped(err, a) ==
    IF "503" \in err \/ "UNAVAILABLE" \in err
    THEN (IF a = 0 THEN 10 ELSE 30 * 2^(a - 1))
    ELSE IF "returned None response text" \in err
    THEN 15 + a * 10
    ELSE IF "429" \in err \/ "RESOURCE_EXHAUSTED" \in err
    THEN (IF "retryDelay" \in err /\ "55s" \in err THEN 55
          ELSE IF a > 0 THEN 60 * 2^a ELSE 60)
    ELSE 20 + a * 15
WaitTime(err, a) ==
    IF "503" \in err \/ "UNAVAILABLE" \in err
    THEN (IF a = 0 THEN 10 ELSE Min(30 * 2^(a - 1), 120))
    ELSE IF "returned None response text" \in err
    THEN 15 + a * 10
    ELSE IF "429" \in err \/ "RESOURCE_EXHAUSTED" \in err
    THEN (IF "retryDelay" \in err /\ "55s" \in err THEN 55
          ELSE IF a > 0 THEN Min(60 * 2^a, 300) ELSE 60)
    ELSE 20 + a * 15

\* lines 95-109: the error raised when the last attempt failed too
FinalError(err) ==
    IF "503" \in err \/ "UNAVAILABLE" \in err THEN "raise_unavailable"
    ELSE IF "returned None response text" \in err THEN "raise_none_text"
    ELSE IF "429" \in err \/ "RESOURCE_EXHAUSTED" \in err THEN "raise_rate_limit"
    ELSE "raise_temporary"

\* lines 110-118: the error raised for a non-retryable failure
PermanentError(err) ==
    IF IsContentFiltered(err) THEN "raise_content_filtered" ELSE "raise_error"

\* line 37: max_retries: int = 3; no caller passes another value
DefaultMaxRetries == 3

InitRetryVars ==
    /\ rt_pc = "idle"
    /\ max_retries = 0
    /\ attempt = 0
    /\ error_str = {}
    /\ rt_result = "none"
    /\ n_calls = 0
    /\ n_sleeps = 0
    /\ api_at = -1
    /\ api_rl = 0
    /\ api_prev_rl = 0
    /\ api_total = 0

(***************************************************************************)
(* Part 3: research_post_and_write_note (src/src/note_writer/write_note.py)*)
(* and verify_and_filter_links (llm_util.py): data and pure parts.         *)
(***************************************************************************)

\* sequences over S of length at most n
SeqsUpTo(S, n) == UNION { [1..k -> S] : k \in 0..n }

\* post.text: absent (None), empty or whitespace only, or real text
Texts == {"None", "blank", "words"}

\* media.media_type, and for a photo whether media.url is set
MediaKinds == {"photo", "photo_nourl", "video", "other"}

Posts == { [text |-> t, media |-> m] :
              t \in Texts, m \in SeqsUpTo(MediaKinds, MaxMedia) }

NoPost == [text |-> "None", media |-> <<>>]

\* the URLs a search response can mention; "x" is on the denylist
Urls == {"a", "b", "x"}

\* _should_skip_url (lines 811-824)
ShouldSkipUrl(u) == u = "x"

\* not post.text or not post.text.strip()   (line 155, left operand)
TextIsEmpty_NoneOnly(t) == t = "None"
TextIsEmpty(t) == t = "None" \/ t = "blank"

\* line 155
IsEmptyPost(p) == TextIsEmpty(p.text) /\ Len(p.media) = 0

\* NoteResult(post=..., error=..., refusal=..., note=..., images_summary=...)
NoResult == [error |-> "None", refusal |-> "None", note |-> "None", tags |-> <<>>]
ErrorResult(e) == [NoResult EXCEPT !.error = e]
RefusalResult(r) == [NoResult EXCEPT !.refusal = r]
\* lines 204-212
NoteResult_WithRefusal(text, tags) ==
    [NoResult EXCEPT !.note = text, !.tags = tags, !.refusal = text]
NoteResult(text, tags) == [NoResult EXCEPT !.note = text, !.tags = tags]

\* line 176: if filtered_search_results is None or len(valid_urls) == 0
NoValidSources_OnlyNone(f, valid) == f = "None"
NoValidSources(f, valid) == f = "None" \/ Len(valid) = 0

\* lines 1173-1175 and 1231-1251: what verify_and_filter_links returns as
\* filtered_search_results
FilteredResults(us, valid) ==
    IF us = <<>> THEN "raw"
    ELSE IF Len(valid) = 0 THEN "None"
    ELSE "filtered"

\* the elements of a sequence
Range(q) == { q[i] : i \in 1..Len(q) }

\* lines 1241-1249: the URLs mentioned in the text returned as
\* filtered_search_results: the list of valid_urls followed by the whole of
\* search_results, from which us were extracted
FilteredMentions(f, us, valid) ==
    IF f = "filtered" THEN Range(valid) \cup Range(us)
    ELSE IF f = "raw" THEN Range(us)
    ELSE {}

\* gemini_describe_image (lines 191-269) as seen by _summarize_images
DescribeOutcomes == {"download_failed", "described", "blank", "raised"}

\* write_note.py lines 136-143: what the loop does after trying to describe a
\* photo: every exception is caught, the loop continues
PhotoStep_Propagate(o) ==
    IF o \in {"download_failed", "raised"} THEN "raise" ELSE "continue"
PhotoStep(o) == "continue"

\* fetch_page_content (lines 999-1042): 200 with content, a non-200 status,
\* or an exception (status 0)
FetchOutcomes == {"ok", "404", "403", "timeout"}

\* lines 1200-1210: a failed fetch that rejects the URL at once
FetchRejected_AnyFailure(f) == f # "ok"
FetchRejected(f) == f \in {"404", "403"}

\* the verdict of the classifier call in validate_page_content_with_gemini
\* (lines 1143-1158): the reply starts with "VALID:", or anything else
\* (an "INVALID:" reply, another format, a gateway error)
ClassifierReplies == {"VALID", "INVALID"}

\* lines 1149-1158
ReplyIsValid_Lenient(r) == r # "INVALID"
ReplyIsValid(r) == r = "VALID"

\* the reply of the note-writing call (line 188); "raised": the gateway raised
NoteReplies == {"NO NOTE NEEDED.", "NOT ENOUGH EVIDENCE", "note", "raised"}

\* lines 194-196
IsRefusalReply_FirstPhraseOnly(r) == r = "NO NOTE NEEDED."
IsRefusalReply(r) == r \in {"NO NOTE NEEDED.", "NOT ENOUGH EVIDENCE"}

\* the MisleadingTag enumeration, as listed in the prompt
\* (misleading_tags.py lines 89-95)
MisleadingTags ==
    {"factual_error", "manipulated_media", "outdated_information",
     "missing_important_context", "disputed_claim_as_fact",
     "misinterpreted_satire", "other"}

\* one attempt of get_misleading_tags (misleading_tags.py lines 16-34): the
\* gateway raises, or it replies with a JSON object listing tags of the
\* enumeration, with {"misleading_tags": []}, with text holding no JSON, with
\* a JSON object lacking the key, or with a tag outside the enumeration
TagReplies ==
    {"tags", "empty_list", "llm_error", "no_json", "missing_key", "bad_tag"}

\* lines 17-26: what one attempt makes of the reply: the list it returns, or
\* an exception (raised by get_gemini_response, by line 26, or by
\* MisleadingTag(tag) for a value outside the enumeration at line 24)
TagParse_AcceptUnknown(r) ==
    CASE r = "tags"       -> [ok |-> TRUE, tags |-> <<"factual_error">>]
      [] r = "empty_list" -> [ok |-> TRUE, tags |-> <<>>]
      [] r = "bad_tag"    -> [ok |-> TRUE, tags |-> <<"not_a_tag">>]
      [] OTHER            -> [ok |-> FALSE, tags |-> <<>>]
TagParse(r) ==
    CASE r = "tags"       -> [ok |-> TRUE, tags |-> <<"factual_error">>]
      [] r = "empty_list" -> [ok |-> TRUE, tags |-> <<>>]
      [] OTHER            -> [ok |-> FALSE, tags |-> <<>>]

\* line 10: retries: int = 3; the only caller (write_note.py line 202) passes
\* no other value
default_retries == 3

\* lines 34 and 36
FallbackTags == <<"missing_important_context">>

NoCalls == [image_get |-> 0, describe |-> 0, web_search |-> 0, search_llm |-> 0,
            fetch |-> 0, classify |-> 0, note |-> 0, tags |-> 0]

Count(c, k) == [c EXCEPT ![k] = @ + 1]

InitNoteVars ==
    /\ nw_pc = "idle"
    /\ post = NoPost
    /\ media_i = 0
    /\ images_summary = <<>>
    /\ urls = <<>>
    /\ url_i = 0
    /\ url_log = <<>>
    /\ valid_urls = <<>>
    /\ filtered = "unset"
    /\ note_or_refusal_str = "unset"
    /\ tag_retries = 0
    /\ calls = NoCalls
    /\ result = NoResult

(***************************************************************************)
(* Part 4: search_web_for_recent_info (llm_util.py lines 272-340) and the  *)
(* module-level _search_cache: data and pure parts.                        *)
(***************************************************************************)
cache_expiry_seconds == 300

\* the queries of a run; "q+" is a longer query whose first 100 characters
\* are those of "q"
Queries == {"q", "q+"}

\* query.strip()[:100]
QueryPrefix(q) == IF q = "q+" THEN "q" ELSE q

\* the default max_results and another value
default_max_results == 10
ResultCounts == {default_max_results, 5}

\* line 278
CacheKey(q, n) == <<QueryPrefix(q), n>>

\* the keys a run can use
CacheKeys == { CacheKey(q, n) : q \in Queries, n \in ResultCounts }

\* line 283: is an entry expired at time now
IsExpired_AtTtl(now, ts) == now - ts >= cache_expiry_seconds
IsExpired(now, ts) == now - ts > cache_expiry_seconds

\* line 290
IsFresh(now, ts) == now - ts <= cache_expiry_seconds

\* lines 297-301: the engines in order of preference
search_engines == <<"Google (yagooglesearch)", "RSS Feeds", "News Scraper">>

\* what search_func(query, max_results) can do (line 306): raise, return
\* nothing, return a text holding a failure pattern, return results
EngineOutcomes == {"raised", "empty", "failure_text", "results"}

\* lines 309-317: is_failure, for what the engine returned
IsFailure_OnlyEmpty(o) == o = "empty"
IsFailure(o) == o \in {"empty", "failure_text"}

\* lines 304-335: what the loop does with the outcome of an engine: go on to
\* the next engine, return its text, or let its exception propagate
EngineStep_NoExcept(o) ==
    IF o = "raised" THEN "propagate"
    ELSE IF IsFailure(o) THEN "next" ELSE "return"
EngineStep(o) ==
    IF o = "raised" THEN "next"
    ELSE IF IsFailure(o) THEN "next" ELSE "return"

\* lines 279, 329 and 339: the timestamp stored with an entry is the
\* current_time the call read when it started
EntryTimestamp_AtStore(t) == clock
EntryTimestamp(t) == sw_current_time[t]

\* the text engine number e returned (line 306) in call number c
EngineText(o, e, c) == [kind |-> o, engine |-> e, call |-> c, query |-> "-"]

\* line 338: error_msg
AllFailedText(q) == [kind |-> "all_failed", engine |-> 0, call |-> 0, query |-> q]

\* a key that is not in _search_cache
NoEntry == [ts |-> -1, text |-> AllFailedText("-")]

\* line 288: cache_key in _search_cache
InCache(cache, k) == cache[k] # NoEntry

NoSearch == [th |-> "none", query |-> "-", key |-> <<"-", 0>>, started |-> 0,
             hit |-> FALSE, found |-> NoEntry, tried |-> <<>>,
             text |-> AllFailedText("-"), serial |-> 0]

\* the delays by which the clock advances in the search model
SearchDelays == {1, cache_expiry_seconds}

\* no call of search_web_for_recent_info is under way
InitSearchLocals ==
    /\ sw_pc = [t \in AllWorkers |-> "idle"]
    /\ sw_query = [t \in AllWorkers |-> "-"]
    /\ cache_key = [t \in AllWorkers |-> <<"-", 0>>]
    /\ sw_current_time = [t \in AllWorkers |-> 0]
    /\ expired_keys = [t \in AllWorkers |-> {}]
    /\ sw_engine = [t \in AllWorkers |-> 0]
    /\ sw_tried = [t \in AllWorkers |-> <<>>]
    /\ sw_found = [t \in AllWorkers |-> NoEntry]
    /\ sw_serial = [t \in AllWorkers |-> 0]
    /\ sw_started = 0
    /\ sw_advances = 0
    /\ sw_last = NoSearch

\* line 21: _search_cache = {}
InitSearchVars ==
    /\ search_cache = [k \in CacheKeys |-> NoEntry]
    /\ InitSearchLocals

(***************************************************************************)
(* Part 5: extract_urls_from_text (llm_util.py lines 960-996): data and    *)
(* pure parts.  A text is modelled by the URL mentions url_pattern finds   *)
(* in it; a mention is written with or without a scheme and may be         *)
(* followed by sentence punctuation.                                       *)
(***************************************************************************)
Schemes == {"", "http://", "https://"}
Hosts == {"a.com", "b.com"}

\* line 967: what re.findall(url_pattern, text) can return, item by item
Mentions == [scheme : Schemes, host : Hosts, punct : BOOLEAN]

\* line 973: remove trailing punctuation
CleanUrl(u) == [u EXCEPT !.punct = FALSE]

\* lines 977-983: remove duplicates while preserving order
RECURSIVE Unique(_, _)
Unique(us, seenset) ==
    IF us = <<>> THEN <<>>
    ELSE IF Head(us) \in seenset THEN Unique(Tail(us), seenset)
    ELSE <<Head(us)>> \o Unique(Tail(us), seenset \cup {Head(us)})

\* lines 985-994: add https:// if no scheme
NormalizeUrl(u) == IF u.scheme = "" THEN [u EXCEPT !.scheme = "https://"] ELSE u

\* lines 970-975 and 986-994: the loops over the list
CleanAll(us) == [i \in 1..Len(us) |-> CleanUrl(us[i])]
NormalizeAll(us) == [i \in 1..Len(us) |-> NormalizeUrl(us[i])]

InitExtractVars ==
    /\ ex_pc = "idle"
    /\ ex_text = <<>>
    /\ ex_urls = <<>>

(***************************************************************************)
(* Part 6: get_misleading_tags (misleading_tags.py lines 9-36): data.  The *)
(* replies and their parsing (TagReplies, TagParse) are those of Part 3.   *)
(***************************************************************************)
InitTagVars ==
    /\ tg_pc = "idle"
    /\ tg_retries = 0
    /\ tg_log = <<>>
    /\ tg_result = <<>>

(***************************************************************************)
(* Part 7: main and _worker (src/src/main.py), get_processed_post_ids and  *)
(* add_processed_post_id (src/src/cnapi/gist_util.py): data and pure parts.*)
(***************************************************************************)
PostIds == 1..MaxPosts

\* sequences over S without repetition
DistinctSeqs(S) ==
    { q \in SeqsUpTo(S, Cardinality(S)) :
         \A i, j \in 1..Len(q) : i # j => q[i] # q[j] }

\* what research_post_and_write_note hands to _worker (write_note.py lines
\* 156-212): a refusal, an error or a note; "raise": it raised instead
WorkerResults ==
    { RefusalResult("NO NOTE NEEDED."),
      RefusalResult("NO VALID SOURCES FOUND"),
      ErrorResult("Video not supported yet"),
      ErrorResult("Unsupported media type"),
      NoteResult("note", FallbackTags) }

\* the other refusals research_post_and_write_note can return (write_note.py
\* lines 156 and 194-197)
AllWorkerResults ==
    WorkerResults \cup { RefusalResult("NO NOTE NEEDED: empty post"),
                         RefusalResult("NOT ENOUGH EVIDENCE") }

\* main.py line 52
ShouldSubmit_IgnoreDryRun(nr, dry) ==
    nr.note # "None" /\ nr.refusal = "None" /\ nr.error = "None"
ShouldSubmit(nr, dry) ==
    nr.note # "None" /\ nr.refusal = "None" /\ nr.error = "None" /\ ~dry

\* template-api-note-writer/src/main.py line 37
TemplateSubmits(nr, dry) == nr.note # "None" /\ ~dry

\* main.py lines 70-76: a condition that will not change on a retry
IsPermanent_AnyRefusal(nr, dry) ==
    /\ ~dry
    /\ \/ nr.error = "Video not supported yet"
       \/ nr.refusal # "None"
IsPermanent(nr, dry) ==
    /\ ~dry
    /\ \/ nr.error = "Video not supported yet"
       \/ nr.refusal \in {"NO NOTE NEEDED.", "NO NOTE NEEDED: empty post"}

\* what submit_note does (submit_note.py lines 64-93, xurl_util.py lines
\* 11-41): it returns, or raises an exception whose str() is the message
SubmitOutcomes ==
    { "ok",
      "already created a note",
      "User Already Created A Note",
      "exit status 1" }

\* str.lower() on the messages above
LowerMessage(m) ==
    IF m = "User Already Created A Note" THEN "user already created a note"
    ELSE m

\* main.py lines 62-63: "already created a note" in error_str.lower()
IsAlreadyCreated_CaseSensitive(m) == m \in {"already created a note"}
IsAlreadyCreated(m) ==
    LowerMessage(m) \in {"already created a note", "user already created a note"}

\* main.py lines 88-97: what _worker does with an exception that reaches
\* its outer handler
WorkerCatch_Propagate(e) == "raised"
WorkerCatch(e) == "returned"

\* how the GET of the Gist and the parsing of its content can end
\* (gist_util.py lines 25-53)
LookupOutcomes == {"ok", "http_error", "bad_json", "no_file"}

\* gist_util.py lines 12-53: the set get_processed_post_ids returns
LookupResult(env, o, store) == IF env /\ o = "ok" THEN store ELSE {}

\* how the PATCH of the Gist can end (gist_util.py lines 96-99)
PatchOutcomes == {"ok", "http_error"}

\* gist_util.py lines 73-99: the store after the PATCH
PatchedStore_Always(o, store, current, id) == current \cup {id}
PatchedStore(o, store, current, id) ==
    IF o = "ok" THEN current \cup {id} ELSE store

\* cnapi.get_api_eligible_posts.get_posts_eligible_for_notes: the list of
\* posts it returns (it can also raise)
EligibleLists == DistinctSeqs(PostIds)

\* submit_note.py lines 9-61: get_notes_written_by_user returns a set of post
\* IDs, the empty set when the request failed
NotesWritten == { [type |-> "set", ids |-> S] : S \in SUBSET PostIds }

\* main.py line 121: notes_written_by_user.get("data", []) needs a dict
HasGet(v) == v.type = "dict"

\* main.py line 130
NewPosts(eligible, processed) ==
    SelectSeq(eligible, LAMBDA p : p \notin processed)

\* a _worker call that has not started
NoWorker == [pc |-> "queued", note_result |-> NoResult, submit |-> "none",
             submits |-> 0, should_add_to_gist |-> FALSE, lookup |-> "none",
             current_post_ids |-> {}, added |-> "none", caught |-> FALSE]

\* a _worker call that has returned: its locals are gone
Returned(w) == [NoWorker EXCEPT !.pc = "returned", !.caught = w.caught]

\* a _worker call whose return main has taken note of
Joined(w) == [NoWorker EXCEPT !.pc = "joined", !.caught = w.caught]

NoGistCall == [op |-> "none"]

Concurrencies == {1, 2}

InitMainVars ==
    /\ gist = {}
    /\ gist_env = TRUE
    /\ mn_pc = "idle"
    /\ dry_run = FALSE
    /\ concurrency = 1
    /\ processed_post_ids = {}
    /\ eligible_posts = <<>>
    /\ notes_written_by_user = [type |-> "none", ids |-> {}]
    /\ mn_log = [lookup |-> "none", fetch |-> "none"]
    /\ new_posts = <<>>
    /\ handed = <<>>
    /\ wk = <<>>
    /\ gs_calls = 0
    /\ gs_last = NoGistCall

(***************************************************************************)
(* Part 8: validate_page_content_with_gemini (llm_util.py lines            *)
(* 1070-1158): data and pure parts.                                        *)
(***************************************************************************)
\* line 1078
TwitterHosts ==
    {"twitter.com", "x.com", "www.twitter.com", "www.x.com",
     "mobile.twitter.com", "m.twitter.com"}

\* the hosts of the URLs given to the function, as spelled in the URL
UrlHosts ==
    {"x.com", "X.com", "www.twitter.com", "Mobile.Twitter.com",
     "fx.com", "news.example"}

\* every URL that reaches the function went through the normalisation of
\* extract_urls_from_text and starts with a scheme
UrlSchemes == {"http://", "https://"}

ValidatedUrls == [scheme : UrlSchemes, host : UrlHosts]

\* line 1077: urlparse(url.lower()).netloc
Netloc_NoLower(u) == u.host
Netloc(u) ==
    CASE u.host = "X.com"              -> "x.com"
      [] u.host = "Mobile.Twitter.com" -> "mobile.twitter.com"
      [] OTHER                         -> u.host

\* line 1078
IsTwitterUrl(u) == Netloc(u) \in TwitterHosts

\* lines 1082-1096 (those used below)
deleted_indicators ==
    {"this tweet was deleted", "tweet not found", "try again",
     "account suspended"}

\* a fetched body: the phrase it contains, and whether the body spells it in
\* lower case; "" is the empty content passed for a failed fetch
Phrases == {"this tweet was deleted", "tweet not found", "try again",
            "breaking news"}

Contents ==
    { [phrase |-> ph, lower |-> l] : ph \in Phrases, l \in BOOLEAN }
       \cup { [phrase |-> "", lower |-> TRUE] }

\* line 1098: content.lower()
ContentLower_Identity(c) == c
ContentLower(c) == [c EXCEPT !.lower = TRUE]

\* line 1100: indicator in content_lower (a case-sensitive test)
Occurs(indicator, c) == c.phrase = indicator /\ c.lower

\* lines 1081-1101
IsDeletedPost(u, c) ==
    IsTwitterUrl(u) /\ \E ind \in deleted_indicators : Occurs(ind, ContentLower(c))

\* original_claim: post.text, which is None for a post without text
Claims == {"None", "words", "recent words"}

\* the reply of get_gemini_response at line 1144; "raise": it raised
ValidateReplies ==
    {"VALID: good", "  VALID: padded", "INVALID: 404", "Valid", "", "raise"}

\* line 1148: response.strip()
StripReply_Identity(r) == r
StripReply(r) == IF r = "  VALID: padded" THEN "VALID: padded" ELSE r

\* lines 1149-1158: is_valid
ReplyVerdict(r) ==
    r # "raise" /\ StripReply(r) \in {"VALID: good", "VALID: padded"}

\* the (is_valid, explanation) returned, with the reply it was derived from
NoVerdict == [is_valid |-> FALSE, why |-> "none", reply |-> "none"]

InitValidateVars ==
    /\ vp_pc = "idle"
    /\ vp_url = [scheme |-> "https://", host |-> "news.example"]
    /\ vp_content = [phrase |-> "", lower |-> TRUE]
    /\ vp_claim = "None"
    /\ vp_llm_calls = 0
    /\ vp_result = NoVerdict

(***************************************************************************)
(* Part 9: get_gemini_search_response (llm_util.py lines 873-957): data    *)
(* and pure parts.  A text is modelled by the substrings tested at line    *)
(* 938 that occur in it.                                                   *)
(***************************************************************************)
\* line 938
FailureMarkers == {"Web search error", "unavailable"}

\* lines 880-934: the search query taken from the prompt: no post text was
\* found, or a text in which any of the markers may occur
SearchQueries ==
    { [empty |-> TRUE, marks |-> {}] }
       \cup { [empty |-> FALSE, marks |-> m] : m \in SUBSET FailureMarkers }

\* web_results = "" (lines 929 and 940)
NoWebResults == [kind |-> "empty", marks |-> {}]

\* what search_web_for_recent_info(search_query) returns (lines 272-340):
\* the text of an engine, in which "unavailable" may occur ("Web search
\* error" makes it a failure at line 311), or the all-engines-failed
\* message of line 338, which quotes the query
WebSearchTexts(q) ==
    { [kind |-> "results", marks |-> m] : m \in SUBSET {"unavailable"} }
       \cup { [kind |-> "all_failed", marks |-> q.marks] }

\* lines 938-940: is the search outcome discarded
IsDiscarded(text) == text.marks \cap FailureMarkers # {}

\* lines 944-953: enhanced_prompt: the prompt, followed by the section
\* "CURRENT WEB SEARCH RESULTS" when web_results is not empty
EnhancedPrompt(web) == [section |-> web # NoWebResults, web |-> web]

InitPromptVars ==
    /\ sr_pc = "idle"
    /\ sr_query = [empty |-> TRUE, marks |-> {}]
    /\ sr_web_results = NoWebResults
    /\ sr_enhanced = EnhancedPrompt(NoWebResults)
    /\ sr_calls = 0

\* the state of every part but Parts 4 and 7 when the process starts
InitProcess(ws) ==
    /\ clock = StartTime
    /\ last_request_time = 0
    /\ workers = ws
    /\ rl_pc = [t \in AllWorkers |-> "idle"]
    /\ current_time = [t \in AllWorkers |-> 0]
    /\ time_since_last = [t \in AllWorkers |-> 0]
    /\ wake_at = [t \in AllWorkers |-> 0]
    /\ seen = [t \in AllWorkers |-> 0]
    /\ nread = [t \in AllWorkers |-> 0]
    /\ rl_started = 0
    /\ permits = <<>>
    /\ InitRetryVars
    /\ InitNoteVars
    /\ InitExtractVars
    /\ InitTagVars
    /\ InitValidateVars
    /\ InitPromptVars

\* the state of every part but Part 7 when the process starts
InitCore(ws) == InitProcess(ws) /\ InitSearchVars

InitRLWith(ws) == InitCore(ws) /\ InitMainVars

\* time passes
Tick ==
    /\ clock < MaxTime
    /\ clock' = clock + 1
    /\ UNCHANGED <<last_request_time, workers, rl_pc, current_time,
                   time_since_last, wake_at, seen, nread, rl_started, permits>>
    /\ UNCHANGED <<rtVars, nwVars, swVars, exVars, tgVars, mnVars, vpVars, srVars>>

\* a thread enters _rate_limit
RL_Call(t) ==
    /\ rl_pc[t] = "idle"
    /\ rl_started < MaxCalls
    /\ rl_started' = rl_started + 1
    /\ rl_pc' = [rl_pc EXCEPT ![t] = "L27"]
    /\ UNCHANGED <<clock, last_request_time, workers, current_time,
                   time_since_last, wake_at, seen, nread, permits>>
    /\ UNCHANGED <<rtVars, nwVars, swVars, exVars, tgVars, mnVars, vpVars, srVars>>

\* line 27: current_time = time.time()
RL_ReadClock(t) ==
    /\ rl_pc[t] = "L27"
    /\ current_time' = [current_time EXCEPT ![t] = clock]
    /\ rl_pc' = [rl_pc EXCEPT ![t] = "L28"]
    /\ UNCHANGED <<clock, last_request_time, workers, time_since_last,
                   wake_at, seen, nread, rl_started, permits>>
    /\ UNCHANGED <<rtVars, nwVars, swVars, exVars, tgVars, mnVars, vpVars, srVars>>

\* line 28: time_since_last = current_time - _last_request_time
RL_ReadLast(t) ==
    /\ rl_pc[t] = "L28"
    /\ time_since_last' =
          [time_since_last EXCEPT ![t] = current_time[t] - last_request_time]
    /\ seen' = [seen EXCEPT ![t] = last_request_time]
    /\ nread' = [nread EXCEPT ![t] = Len(permits)]
    /\ rl_pc' = [rl_pc EXCEPT ![t] = "L30"]
    /\ UNCHANGED <<clock, last_request_time, workers, current_time,
                   wake_at, rl_started, permits>>
    /\ UNCHANGED <<rtVars, nwVars, swVars, exVars, tgVars, mnVars, vpVars, srVars>>

\* lines 30-33: time.sleep(wait_time) when the interval has not elapsed;
\* the sleep starts now and lasts at least wait_time
RL_Sleep(t) ==
    /\ rl_pc[t] = "L30"
    /\ wake_at' = [wake_at EXCEPT ![t] = clock + RateLimitWait(time_since_last[t])]
    /\ rl_pc' = [rl_pc EXCEPT ![t] = "L35"]
    /\ UNCHANGED <<clock, last_request_time, workers, current_time,
                   time_since_last, seen, nread, rl_started, permits>>
    /\ UNCHANGED <<rtVars, nwVars, swVars, exVars, tgVars, mnVars, vpVars, srVars>>

\* line 35: _last_request_time = time.time(), then return
RL_Write(t) ==
    /\ rl_pc[t] = "L35"
    /\ clock >= wake_at[t]
    /\ last_request_time' = StoredTimestamp(t)
    /\ permits' = Append(permits,
          [th |-> t, seen |-> seen[t], before |-> last_request_time,
           stored |-> StoredTimestamp(t), at |-> clock, nread |-> nread[t],
           slept |-> RateLimitWait(time_since_last[t])])
    /\ rl_pc' = [rl_pc EXCEPT ![t] = "idle"]
    /\ current_time' = [current_time EXCEPT ![t] = 0]
    /\ time_since_last' = [time_since_last EXCEPT ![t] = 0]
    /\ wake_at' = [wake_at EXCEPT ![t] = 0]
    /\ seen' = [seen EXCEPT ![t] = 0]
    /\ nread' = [nread EXCEPT ![t] = 0]
    /\ UNCHANGED <<clock, workers, rl_started>>
    /\ UNCHANGED <<rtVars, nwVars, swVars, exVars, tgVars, mnVars, vpVars, srVars>>

NextRL ==
    \/ Tick
    \/ \E t \in workers : RL_Call(t)
    \/ \E t \in workers : RL_ReadClock(t)
    \/ \E t \in workers : RL_ReadLast(t)
    \/ \E t \in workers : RL_Sleep(t)
    \/ \E t \in workers : RL_Write(t)

\* one worker: the sequential mode of main.py (concurrency = 1)
InitRL == InitRLWith({"w1"})
SpecRL == InitRL /\ [][NextRL]_vars

\* two workers of the thread pool (concurrency > 1)
InitRLConc == InitRLWith(AllWorkers)
SpecRLConc == InitRLConc /\ [][NextRL]_vars

(***************************************************************************)
(* Part 2: _retry_with_backoff, run by one thread, request after request.  *)
(* Time passes while the provider answers and while the thread sleeps.     *)
(***************************************************************************)

\* a sleeping _rate_limit call sleeps to its end (no other thread runs)
RL_SleepThrough(t) ==
    /\ rl_pc[t] = "L35"
    /\ clock < wake_at[t]
    /\ clock' = wake_at[t]
    /\ UNCHANGED <<last_request_time, workers, rl_pc, current_time,
                   time_since_last, wake_at, seen, nread, rl_started, permits>>
    /\ UNCHANGED <<rtVars, nwVars, swVars, exVars, tgVars, mnVars, vpVars, srVars>>

\* line 45: for attempt in range(max_retries + 1); line 121 after the loop
LoopHead(a, m) ==
    IF a < m + 1
    THEN /\ rt_pc' = "try"
         /\ rt_result' = rt_result
    ELSE /\ rt_pc' = "raised"
         /\ rt_result' = "raise_unexpected"

\* lines 37-41: _retry_with_backoff(api_call_func, m) is called and calls
\* _rate_limit
RT_Begin(m) ==
    /\ rt_pc \in {"idle", "returned", "raised"}
    /\ rl_pc[Main] = "idle"
    /\ rl_started < MaxCalls
    /\ max_retries' = m
    /\ attempt' = 0
    /\ error_str' = {}
    /\ rt_result' = "none"
    /\ n_calls' = 0
    /\ n_sleeps' = 0
    /\ rt_pc' = "rate_limit"
    /\ rl_pc' = [rl_pc EXCEPT ![Main] = "L27"]
    /\ rl_started' = rl_started + 1
    /\ UNCHANGED <<api_at, api_rl, api_prev_rl, api_total>>
    /\ UNCHANGED <<clock, last_request_time, workers, current_time,
                   time_since_last, wake_at, seen, nread, permits>>
    /\ UNCHANGED <<nwVars, swVars, exVars, tgVars, mnVars, vpVars, srVars>>

\* lines 43-45: _rate_limit has returned, the loop starts
RT_EnterLoop ==
    /\ rt_pc = "rate_limit"
    /\ rl_pc[Main] = "idle"
    /\ attempt' = 0
    /\ LoopHead(0, max_retries)
    /\ UNCHANGED <<max_retries, error_str, n_calls, n_sleeps,
                   api_at, api_rl, api_prev_rl, api_total>>
    /\ UNCHANGED <<rlVars, nwVars, swVars, exVars, tgVars, mnVars, vpVars, srVars>>

\* lines 46-49: api_call_func() is invoked; the provider takes d seconds
RT_Invoke(resp, d) ==
    /\ rt_pc = "try"
    /\ api_total < MaxApiCalls
    /\ api_total' = api_total + 1
    /\ clock' = clock + d
    /\ n_calls' = n_calls + 1
    /\ api_at' = clock
    /\ api_prev_rl' = api_rl
    /\ api_rl' = Len(permits)
    /\ LET r == ApiCall(resp) IN
          IF r.ok
          THEN /\ rt_pc' = "returned"
               /\ rt_result' = IF r.text = "text" THEN "returned_text"
                                                  ELSE "returned_empty"
               /\ error_str' = error_str
          ELSE /\ rt_pc' = "except"
               /\ rt_result' = rt_result
               /\ error_str' = r.msg
    /\ UNCHANGED <<max_retries, attempt, n_sleeps>>
    /\ UNCHANGED <<last_request_time, workers, rl_pc, current_time,
                   time_since_last, wake_at, seen, nread, rl_started, permits>>
    /\ UNCHANGED <<nwVars, swVars, exVars, tgVars, mnVars, vpVars, srVars>>

\* lines 48-118: the except block: sleep and continue, or raise
RT_Handle ==
    /\ rt_pc = "except"
    /\ IF ShouldRetry(error_str, attempt, max_retries)
       THEN /\ clock' = clock + WaitTime(error_str, attempt)
            /\ n_sleeps' = n_sleeps + 1
            /\ attempt' = attempt + 1
            /\ LoopHead(attempt + 1, max_retries)
       ELSE /\ rt_pc' = "raised"
            /\ rt_result' = IF IsRetryable(error_str)
                            THEN FinalError(error_str)
                            ELSE PermanentError(error_str)
            /\ UNCHANGED <<clock, n_sleeps, attempt>>
    /\ UNCHANGED <<max_retries, error_str, n_calls, api_at,
                   api_rl, api_prev_rl, api_total>>
    /\ UNCHANGED <<last_request_time, workers, rl_pc, current_time,
                   time_since_last, wake_at, seen, nread, rl_started, permits>>
    /\ UNCHANGED <<nwVars, swVars, exVars, tgVars, mnVars, vpVars, srVars>>

NextRetry ==
    \/ \E m \in 0..DefaultMaxRetries : RT_Begin(m)
    \/ RL_ReadClock(Main)
    \/ RL_ReadLast(Main)
    \/ RL_Sleep(Main)
    \/ RL_SleepThrough(Main)
    \/ RL_Write(Main)
    \/ RT_EnterLoop
    \/ \E resp \in ApiResponses, d \in 0..MaxLatency : RT_Invoke(resp, d)
    \/ RT_Handle

InitRetry == InitRLWith({Main})
SpecRetry == InitRetry /\ [][NextRetry]_vars

(***************************************************************************)
(* Part 2, the wait schedule: _retry_with_backoff taken at the point where *)
(* attempt a of a request has just failed, for every a, max_retries and    *)
(* error.                                                                  *)
(***************************************************************************)

\* the sleeps of the attempts before a, all of which failed with err
RECURSIVE SumWaits(_, _)
SumWaits(err, a) == IF a = 0 THEN 0 ELSE SumWaits(err, a - 1) + WaitTime(err, a - 1)

\* lines 41-49: a request with max_retries = m whose attempts 0..a have all
\* failed with the error of resp; attempt a has just raised
RT_FailAt(resp, a, m) ==
    /\ rt_pc = "idle"
    /\ ~ApiCall(resp).ok
    /\ a = 0 \/ ShouldRetry(ApiCall(resp).msg, a - 1, m)
    /\ rt_pc' = "except"
    /\ max_retries' = m
    /\ attempt' = a
    /\ error_str' = ApiCall(resp).msg
    /\ rt_result' = "none"
    /\ n_calls' = a + 1
    /\ n_sleeps' = a
    /\ clock' = clock + SumWaits(ApiCall(resp).msg, a)
    /\ api_at' = clock + SumWaits(ApiCall(resp).msg, a)
    /\ api_rl' = 1
    /\ api_prev_rl' = IF a = 0 THEN 0 ELSE 1
    /\ api_total' = a + 1
    /\ last_request_time' = clock
    /\ rl_started' = 1
    /\ permits' = <<[th |-> Main, seen |-> last_request_time,
                     before |-> last_request_time, stored |-> clock, at |-> clock,
                     nread |-> 0, slept |-> 0]>>
    /\ UNCHANGED <<workers, rl_pc, current_time, time_since_last, wake_at,
                   seen, nread>>
    /\ UNCHANGED <<nwVars, swVars, exVars, tgVars, mnVars, vpVars, srVars>>

NextBackoff ==
    \/ \E resp \in ApiResponses, a \in 0..MaxAttempt, m \in 0..(MaxAttempt + 1) :
          a <= m /\ RT_FailAt(resp, a, m)
    \/ RT_Handle

InitBackoff == InitRLWith({Main})
SpecBackoff == InitBackoff /\ [][NextBackoff]_vars

(***************************************************************************)
(* Part 3: research_post_and_write_note, one post per run.  A call of the  *)
(* LLM gateway (_make_request) either returns a string or raises (Part 2); *)
(* it never returns None, so the "is None" branches at write_note.py       *)
(* lines 167 and 191 are never taken.                                      *)
(***************************************************************************)

\* lines 151-161: the empty-post check
NW_Start(p) ==
    /\ nw_pc = "idle"
    /\ post' = p
    /\ IF IsEmptyPost(p)
       THEN /\ result' = RefusalResult("NO NOTE NEEDED: empty post")
            /\ nw_pc' = "done"
            /\ media_i' = media_i
       ELSE /\ result' = result
            /\ nw_pc' = IF Len(p.media) = 0 THEN "search" ELSE "images"
            /\ media_i' = IF Len(p.media) = 0 THEN 0 ELSE 1
    /\ UNCHANGED <<images_summary, urls, url_i, url_log, valid_urls, filtered,
                   note_or_refusal_str, tag_retries, calls>>
    /\ UNCHANGED <<rlVars, rtVars, swVars, exVars, tgVars, mnVars, vpVars, srVars>>

\* after the last media item _summarize_images returns (line 148)
AfterMedia(i) == IF i >= Len(post.media) THEN "search" ELSE "images"

\* write_note.py lines 131-147 and 158-161: one iteration of the loop of
\* _summarize_images; o is what gemini_describe_image does for a photo
NW_SummarizeMedia(o) ==
    /\ nw_pc = "images"
    /\ LET m == post.media[media_i] IN
       CASE m = "photo_nourl" ->
              /\ o = "described"
              /\ images_summary' = Append(images_summary, "no_url")
              /\ nw_pc' = AfterMedia(media_i)
              /\ UNCHANGED <<calls, result>>
         [] m = "photo" ->
              /\ calls' = IF o = "download_failed"
                          THEN Count(calls, "image_get")
                          ELSE Count(Count(calls, "image_get"), "describe")
              /\ IF PhotoStep(o) = "continue"
                 THEN /\ images_summary' = Append(images_summary,
                            CASE o = "described" -> "description"
                              [] o = "blank"     -> "unable"
                              [] OTHER           -> "error")
                      /\ nw_pc' = AfterMedia(media_i)
                 ELSE /\ images_summary' = images_summary
                      /\ nw_pc' = "raised"
              /\ UNCHANGED result
         [] m = "video" ->
              /\ o = "described"
              /\ result' = ErrorResult("Video not supported yet")
              /\ nw_pc' = "done"
              /\ UNCHANGED <<calls, images_summary>>
         [] OTHER ->
              /\ o = "described"
              /\ result' = ErrorResult("Unsupported media type")
              /\ nw_pc' = "done"
              /\ UNCHANGED <<calls, images_summary>>
    /\ media_i' = IF media_i >= Len(post.media) THEN 0 ELSE media_i + 1
    /\ UNCHANGED <<post, note_or_refusal_str, urls, url_i, url_log, valid_urls, filtered, tag_retries>>
    /\ UNCHANGED <<rlVars, rtVars, swVars, exVars, tgVars, mnVars, vpVars, srVars>>

\* write_note.py lines 163-173, llm_util.py lines 873-957 and 1171: the web
\* search and the gateway call of get_gemini_search_response; the gateway
\* raises (raised = TRUE) or returns a text from which us are extracted
NW_Search(raised, us) ==
    /\ nw_pc = "search"
    /\ calls' = Count(Count(calls, "web_search"), "search_llm")
    /\ IF raised
       THEN /\ us = <<>>
            /\ nw_pc' = "raised"
            /\ UNCHANGED <<urls, url_i>>
       ELSE /\ nw_pc' = "verify"
            /\ urls' = us
            /\ url_i' = 1
    /\ UNCHANGED <<post, note_or_refusal_str, media_i, images_summary, url_log, valid_urls, filtered,
                   tag_retries, result>>
    /\ UNCHANGED <<rlVars, rtVars, swVars, exVars, tgVars, mnVars, vpVars, srVars>>

\* llm_util.py lines 1183-1221: one iteration of the verification loop;
\* f is what fetch_page_content does, r the classifier's reply
NW_VerifyUrl(f, r) ==
    /\ nw_pc = "verify"
    /\ url_i <= Len(urls)
    /\ LET u == urls[url_i] IN
       IF ShouldSkipUrl(u)
       THEN /\ f = "ok" /\ r = "VALID"
            /\ url_log' = Append(url_log,
                  [url |-> u, fetch |-> "skipped", reply |-> "none", valid |-> FALSE])
            /\ nw_pc' = nw_pc
            /\ UNCHANGED <<calls, valid_urls>>
       ELSE IF FetchRejected(f)
       THEN /\ r = "VALID"
            /\ calls' = Count(calls, "fetch")
            /\ url_log' = Append(url_log,
                  [url |-> u, fetch |-> f, reply |-> "none", valid |-> FALSE])
            /\ nw_pc' = nw_pc
            /\ UNCHANGED valid_urls
       ELSE IF post.text = "None"
       \* line 1104: _needs_current_verification(None) raises AttributeError
       \* outside the try block of validate_page_content_with_gemini
       THEN /\ r = "VALID"
            /\ calls' = Count(calls, "fetch")
            /\ nw_pc' = "raised"
            /\ UNCHANGED <<url_log, valid_urls>>
       ELSE /\ calls' = Count(Count(calls, "fetch"), "classify")
            /\ url_log' = Append(url_log,
                  [url |-> u, fetch |-> f, reply |-> r, valid |-> ReplyIsValid(r)])
            /\ valid_urls' = IF ReplyIsValid(r) THEN Append(valid_urls, u)
                                                ELSE valid_urls
            /\ nw_pc' = nw_pc
    /\ url_i' = url_i + 1
    /\ UNCHANGED <<post, note_or_refusal_str, media_i, images_summary, urls, filtered, tag_retries,
                   result>>
    /\ UNCHANGED <<rlVars, rtVars, swVars, exVars, tgVars, mnVars, vpVars, srVars>>

\* llm_util.py lines 1173-1175 and 1223-1251, write_note.py lines 173-186:
\* verify_and_filter_links returns (its local url_validation_results is
\* gone) and the caller checks for valid sources and builds note_prompt
NW_FilterDone ==
    /\ nw_pc = "verify"
    /\ url_i > Len(urls)
    /\ filtered' = FilteredResults(urls, valid_urls)
    /\ IF NoValidSources(FilteredResults(urls, valid_urls), valid_urls)
       THEN /\ result' = RefusalResult("NO VALID SOURCES FOUND")
            /\ nw_pc' = "done"
            /\ urls' = <<>>
       ELSE /\ result' = result
            /\ nw_pc' = "write"
            /\ urls' = urls      \* search_results is part of the prompt
    /\ url_i' = 0
    /\ url_log' = <<>>
    /\ UNCHANGED <<post, note_or_refusal_str, media_i, images_summary, valid_urls, tag_retries, calls>>
    /\ UNCHANGED <<rlVars, rtVars, swVars, exVars, tgVars, mnVars, vpVars, srVars>>

\* write_note.py line 186: the URLs mentioned in note_prompt, which embeds
\* filtered_search_results
NotePromptUrls == FilteredMentions(filtered, urls, valid_urls)

\* write_note.py lines 188-200: the note-writing call
NW_WriteNote(r) ==
    /\ nw_pc = "write"
    /\ calls' = Count(calls, "note")
    /\ note_or_refusal_str' = IF r = "raised" THEN note_or_refusal_str ELSE r
    /\ IF r = "raised"
       THEN /\ nw_pc' = "raised"
            /\ UNCHANGED <<result, tag_retries>>
       ELSE IF IsRefusalReply(r)
       THEN /\ result' = RefusalResult(r)
            /\ nw_pc' = "done"
            /\ UNCHANGED tag_retries
       ELSE /\ nw_pc' = "tags"
            /\ tag_retries' = default_retries
            /\ UNCHANGED result
    /\ urls' = <<>>              \* search_results and note_prompt are not used again
    /\ UNCHANGED <<post, media_i, images_summary, url_i, url_log,
                   valid_urls, filtered>>
    /\ UNCHANGED <<rlVars, rtVars, swVars, exVars, tgVars, mnVars, vpVars, srVars>>

\* misleading_tags.py lines 15-34 and write_note.py lines 202-212: one
\* attempt of get_misleading_tags, and the NoteResult once it returns
NW_TagAttempt(r) ==
    /\ nw_pc = "tags"
    /\ calls' = Count(calls, "tags")
    /\ IF TagParse(r).ok
       THEN /\ result' = NoteResult("note", TagParse(r).tags)
            /\ nw_pc' = "done"
            /\ UNCHANGED tag_retries
       ELSE IF tag_retries - 1 = 0
       THEN /\ result' = NoteResult("note", FallbackTags)
            /\ nw_pc' = "done"
            /\ tag_retries' = 0
       ELSE /\ tag_retries' = tag_retries - 1
            /\ UNCHANGED <<nw_pc, result>>
    /\ UNCHANGED <<post, note_or_refusal_str, media_i, images_summary, urls, url_i, url_log,
                   valid_urls, filtered>>
    /\ UNCHANGED <<rlVars, rtVars, swVars, exVars, tgVars, mnVars, vpVars, srVars>>

NextNote ==
    \/ \E p \in Posts : NW_Start(p)
    \/ \E o \in DescribeOutcomes : NW_SummarizeMedia(o)
    \/ \E raised \in BOOLEAN, us \in SeqsUpTo(Urls, MaxUrls) : NW_Search(raised, us)
    \/ \E f \in FetchOutcomes, r \in ClassifierReplies : NW_VerifyUrl(f, r)
    \/ NW_FilterDone
    \/ \E r \in NoteReplies : NW_WriteNote(r)
    \/ \E r \in TagReplies : NW_TagAttempt(r)

InitNote == InitRLWith({Main})
SpecNote == InitNote /\ [][NextNote]_vars

(***************************************************************************)
(* Part 4: search_web_for_recent_info, one call after the other; time      *)
(* passes at any point, also while an engine is working.                   *)
(***************************************************************************)

\* time passes
SW_Advance(d) ==
    /\ sw_advances < MaxAdvances
    /\ sw_advances' = sw_advances + 1
    /\ clock' = clock + d
    /\ UNCHANGED <<last_request_time, workers, rl_pc, current_time,
                   time_since_last, wake_at, seen, nread, rl_started, permits>>
    /\ UNCHANGED <<search_cache, sw_pc, sw_query, cache_key, sw_current_time,
                   expired_keys, sw_engine, sw_tried, sw_found, sw_serial,
                   sw_started, sw_last>>
    /\ UNCHANGED <<rtVars, nwVars, exVars, tgVars, mnVars, vpVars, srVars>>

\* lines 272-283: the call starts, computes cache_key and current_time and
\* collects the expired keys
SW_Call(t, q, n) ==
    /\ sw_pc[t] = "idle"
    /\ sw_started < MaxSearches
    /\ sw_started' = sw_started + 1
    /\ sw_serial' = [sw_serial EXCEPT ![t] = sw_started + 1]
    /\ sw_query' = [sw_query EXCEPT ![t] = q]
    /\ cache_key' = [cache_key EXCEPT ![t] = CacheKey(q, n)]
    /\ sw_current_time' = [sw_current_time EXCEPT ![t] = clock]
    /\ expired_keys' = [expired_keys EXCEPT ![t] =
          { k \in CacheKeys : /\ InCache(search_cache, k)
                              /\ IsExpired(clock, search_cache[k].ts) }]
    /\ sw_found' = [sw_found EXCEPT ![t] = search_cache[CacheKey(q, n)]]
    /\ sw_tried' = [sw_tried EXCEPT ![t] = <<>>]
    /\ sw_pc' = [sw_pc EXCEPT ![t] = "purge"]
    /\ sw_last' = NoSearch
    /\ UNCHANGED <<search_cache, sw_engine, sw_advances>>
    /\ UNCHANGED <<rlVars, rtVars, nwVars, exVars, tgVars, mnVars, vpVars, srVars>>

\* the call of thread t ends returning text; hit: from the cache
SW_Return(t, text, hit, tried) ==
    /\ sw_last' = [th |-> t, query |-> sw_query[t], key |-> cache_key[t],
                   started |-> sw_current_time[t], hit |-> hit,
                   found |-> sw_found[t], tried |-> tried, text |-> text,
                   serial |-> sw_serial[t]]
    /\ sw_pc' = [sw_pc EXCEPT ![t] = "idle"]
    /\ sw_query' = [sw_query EXCEPT ![t] = "-"]
    /\ cache_key' = [cache_key EXCEPT ![t] = <<"-", 0>>]
    /\ sw_current_time' = [sw_current_time EXCEPT ![t] = 0]
    /\ sw_engine' = [sw_engine EXCEPT ![t] = 0]
    /\ sw_tried' = [sw_tried EXCEPT ![t] = <<>>]
    /\ sw_found' = [sw_found EXCEPT ![t] = NoEntry]
    /\ sw_serial' = [sw_serial EXCEPT ![t] = 0]

\* lines 284-285: for k in expired_keys: del _search_cache[k], one key per
\* step; deleting a key that is not there raises KeyError
SW_Purge(t) ==
    /\ sw_pc[t] = "purge"
    /\ IF expired_keys[t] = {}
       THEN /\ sw_pc' = [sw_pc EXCEPT ![t] = "lookup"]
            /\ UNCHANGED <<search_cache, expired_keys>>
       ELSE LET k == CHOOSE k \in expired_keys[t] : TRUE IN
            /\ expired_keys' = [expired_keys EXCEPT ![t] = @ \ {k}]
            /\ IF InCache(search_cache, k)
               THEN /\ search_cache' = [search_cache EXCEPT ![k] = NoEntry]
                    /\ sw_pc' = sw_pc
               ELSE /\ search_cache' = search_cache
                    /\ sw_pc' = [sw_pc EXCEPT ![t] = "raised"]
    /\ UNCHANGED <<sw_query, cache_key, sw_current_time, sw_engine, sw_tried,
                   sw_found, sw_serial, sw_started, sw_advances, sw_last>>
    /\ UNCHANGED <<rlVars, rtVars, nwVars, exVars, tgVars, mnVars, vpVars, srVars>>

\* lines 287-301: return the cached text, or go on to the engines
SW_Lookup(t) ==
    /\ sw_pc[t] = "lookup"
    /\ IF /\ InCache(search_cache, cache_key[t])
          /\ IsFresh(sw_current_time[t], search_cache[cache_key[t]].ts)
       THEN SW_Return(t, search_cache[cache_key[t]].text, TRUE, <<>>)
       ELSE /\ sw_pc' = [sw_pc EXCEPT ![t] = "engines"]
            /\ sw_engine' = [sw_engine EXCEPT ![t] = 1]
            /\ UNCHANGED <<sw_query, cache_key, sw_current_time, sw_tried,
                           sw_found, sw_serial, sw_last>>
    /\ UNCHANGED <<search_cache, expired_keys, sw_started, sw_advances>>
    /\ UNCHANGED <<rlVars, rtVars, nwVars, exVars, tgVars, mnVars, vpVars, srVars>>

\* lines 303-335: one iteration of the loop over the engines; o is what
\* the engine does
SW_Engine(t, o) ==
    /\ sw_pc[t] = "engines"
    /\ CASE EngineStep(o) = "next" ->
              /\ sw_tried' = [sw_tried EXCEPT ![t] = Append(@, o)]
              /\ IF sw_engine[t] < Len(search_engines)
                 THEN /\ sw_engine' = [sw_engine EXCEPT ![t] = @ + 1]
                      /\ sw_pc' = sw_pc
                 ELSE /\ sw_engine' = sw_engine
                      /\ sw_pc' = [sw_pc EXCEPT ![t] = "all_failed"]
              /\ UNCHANGED <<search_cache, sw_query, cache_key, sw_current_time,
                             sw_found, sw_serial, sw_last>>
         [] EngineStep(o) = "return" ->
              /\ search_cache' = [search_cache EXCEPT ![cache_key[t]] =
                    [ts |-> EntryTimestamp(t),
                     text |-> EngineText(o, sw_engine[t], sw_serial[t])]]
              /\ SW_Return(t, EngineText(o, sw_engine[t], sw_serial[t]), FALSE,
                           Append(sw_tried[t], o))
         [] OTHER ->
              /\ sw_pc' = [sw_pc EXCEPT ![t] = "raised"]
              /\ UNCHANGED <<search_cache, sw_query, cache_key, sw_current_time,
                             sw_engine, sw_tried, sw_found, sw_serial, sw_last>>
    /\ UNCHANGED <<expired_keys, sw_started, sw_advances>>
    /\ UNCHANGED <<rlVars, rtVars, nwVars, exVars, tgVars, mnVars, vpVars, srVars>>

\* lines 337-340: every engine failed
SW_AllFailed(t) ==
    /\ sw_pc[t] = "all_failed"
    /\ search_cache' = [search_cache EXCEPT ![cache_key[t]] =
          [ts |-> EntryTimestamp(t), text |-> AllFailedText(sw_query[t])]]
    /\ SW_Return(t, AllFailedText(sw_query[t]), FALSE, sw_tried[t])
    /\ UNCHANGED <<expired_keys, sw_started, sw_advances>>
    /\ UNCHANGED <<rlVars, rtVars, nwVars, exVars, tgVars, mnVars, vpVars, srVars>>

NextSearch ==
    \/ \E d \in SearchDelays : SW_Advance(d)
    \/ \E q \in Queries, n \in ResultCounts : SW_Call(Main, q, n)
    \/ SW_Purge(Main)
    \/ SW_Lookup(Main)
    \/ \E o \in EngineOutcomes : SW_Engine(Main, o)
    \/ SW_AllFailed(Main)

\* the sequential mode of main.py: one thread
InitSearch == InitRLWith({Main})
SpecSearch == InitSearch /\ [][NextSearch]_vars

(***************************************************************************)
(* Part 4, later in the life of the process: the cache holds entries that  *)
(* earlier calls have stored.                                              *)
(***************************************************************************)

\* lines 327-329: an entry stored by a search that began when the process
\* started
StoredEarlier == [ts |-> StartTime, text |-> EngineText("results", 1, 0)]

\* one thread, on a cache that earlier calls have filled
InitSearchWarm ==
    /\ InitProcess({Main})
    /\ InitMainVars
    /\ InitSearchLocals
    /\ search_cache \in [CacheKeys -> {NoEntry, StoredEarlier}]

SpecSearchWarm == InitSearchWarm /\ [][NextSearch]_vars

(***************************************************************************)
(* Part 4, the thread-pool mode (main.py lines 144-148, concurrency > 1):  *)
(* two workers call search_web_for_recent_info at the same time, on such a *)
(* cache.  The steps of a call are those of the sequential model; nothing  *)
(* in lines 277-340 takes a lock.                                          *)
(***************************************************************************)

InitSearchConc ==
    /\ InitProcess(AllWorkers)
    /\ InitMainVars
    /\ InitSearchLocals
    /\ search_cache \in [CacheKeys -> {NoEntry, StoredEarlier}]

\* time passes in steps longer than the time-to-live; an engine returns
\* results or nothing
NextSearchConc ==
    \/ SW_Advance(cache_expiry_seconds + 1)
    \/ \E t \in AllWorkers, q \in Queries, n \in ResultCounts : SW_Call(t, q, n)
    \/ \E t \in AllWorkers : SW_Purge(t)
    \/ \E t \in AllWorkers : SW_Lookup(t)
    \/ \E t \in AllWorkers, o \in {"empty", "results"} : SW_Engine(t, o)
    \/ \E t \in AllWorkers : SW_AllFailed(t)

SpecSearchConc == InitSearchConc /\ [][NextSearchConc]_vars

(***************************************************************************)
(* Part 5: extract_urls_from_text, applied to one text.                    *)
(***************************************************************************)

\* lines 960-967: raw_urls = re.findall(url_pattern, text)
EX_Call(text) ==
    /\ ex_pc = "idle"
    /\ ex_text' = text
    /\ ex_urls' = text
    /\ ex_pc' = "clean"
    /\ UNCHANGED <<rlVars, rtVars, nwVars, swVars, tgVars, mnVars, vpVars, srVars>>

\* lines 969-975: cleaned_urls
EX_Clean ==
    /\ ex_pc = "clean"
    /\ ex_urls' = CleanAll(ex_urls)
    /\ ex_pc' = "dedup"
    /\ UNCHANGED ex_text
    /\ UNCHANGED <<rlVars, rtVars, nwVars, swVars, tgVars, mnVars, vpVars, srVars>>

\* lines 977-983: unique_urls
EX_Dedup ==
    /\ ex_pc = "dedup"
    /\ ex_urls' = Unique(ex_urls, {})
    /\ ex_pc' = "normalize"
    /\ UNCHANGED ex_text
    /\ UNCHANGED <<rlVars, rtVars, nwVars, swVars, tgVars, mnVars, vpVars, srVars>>

\* lines 985-996: normalized_urls, returned
EX_Normalize ==
    /\ ex_pc = "normalize"
    /\ ex_urls' = NormalizeAll(ex_urls)
    /\ ex_pc' = "done"
    /\ UNCHANGED ex_text
    /\ UNCHANGED <<rlVars, rtVars, nwVars, swVars, tgVars, mnVars, vpVars, srVars>>

NextExtract ==
    \/ \E text \in SeqsUpTo(Mentions, MaxMentions) : EX_Call(text)
    \/ EX_Clean
    \/ EX_Dedup
    \/ EX_Normalize

InitExtract == InitRLWith({Main})
SpecExtract == InitExtract /\ [][NextExtract]_vars

(***************************************************************************)
(* Part 6: get_misleading_tags, called once with the default retries.      *)
(***************************************************************************)

\* misleading_tags.py lines 9-15
TG_Call ==
    /\ tg_pc = "idle"
    /\ tg_retries' = default_retries
    /\ tg_pc' = IF default_retries > 0 THEN "loop" ELSE "returned"
    /\ tg_result' = IF default_retries > 0 THEN tg_result ELSE FallbackTags
    /\ UNCHANGED tg_log
    /\ UNCHANGED <<rlVars, rtVars, nwVars, swVars, exVars, mnVars, vpVars, srVars>>

\* lines 15-34: one iteration of the while loop; r is the reply of
\* get_gemini_response.  Every exception of the attempt is caught at line 28.
TG_Attempt(r) ==
    /\ tg_pc = "loop"
    /\ tg_retries > 0
    /\ tg_log' = Append(tg_log, r)
    /\ IF TagParse(r).ok
       THEN /\ tg_result' = TagParse(r).tags
            /\ tg_pc' = "returned"
            /\ UNCHANGED tg_retries
       ELSE /\ tg_retries' = tg_retries - 1
            /\ IF tg_retries - 1 = 0
               THEN /\ tg_result' = FallbackTags
                    /\ tg_pc' = "returned"
               ELSE UNCHANGED <<tg_result, tg_pc>>
    /\ UNCHANGED <<rlVars, rtVars, nwVars, swVars, exVars, mnVars, vpVars, srVars>>

NextTags ==
    \/ TG_Call
    \/ \E r \in TagReplies : TG_Attempt(r)

InitTags == InitRLWith({Main})
SpecTags == InitTags /\ [][NextTags]_vars

(***************************************************************************)
(* Part 7: main as written (src/src/main.py lines 100-167).                *)
(***************************************************************************)

\* the Gist holds any set of IDs when the process starts; the credentials
\* are set or not
InitStore ==
    /\ gist \in SUBSET PostIds
    /\ gist_env \in BOOLEAN
    /\ gs_calls = 0
    /\ gs_last = NoGistCall

InitMainLocals ==
    /\ mn_pc = "idle"
    /\ dry_run = FALSE
    /\ concurrency = 1
    /\ processed_post_ids = {}
    /\ eligible_posts = <<>>
    /\ notes_written_by_user = [type |-> "none", ids |-> {}]
    /\ mn_log = [lookup |-> "none", fetch |-> "none"]
    /\ new_posts = <<>>
    /\ handed = <<>>
    /\ wk = <<>>

\* lines 100-109: main is called
M_Start(dry, conc) ==
    /\ mn_pc = "idle"
    /\ mn_pc' = "lookup"
    /\ dry_run' = dry
    /\ concurrency' = conc
    /\ UNCHANGED <<gist, gist_env, processed_post_ids, eligible_posts,
                   notes_written_by_user, mn_log, new_posts, handed, wk,
                   gs_calls, gs_last>>
    /\ UNCHANGED <<rlVars, rtVars, nwVars, swVars, exVars, tgVars, vpVars, srVars>>

\* line 112: get_processed_post_ids(); o is how the request to the Gist ends
M_GetProcessed(o) ==
    /\ mn_pc = "lookup"
    /\ processed_post_ids' = LookupResult(gist_env, o, gist)
    /\ mn_log' = [mn_log EXCEPT
                    !.lookup = IF gist_env /\ o = "ok" THEN "ok" ELSE "failed"]
    /\ mn_pc' = "fetch"
    /\ UNCHANGED <<gist, gist_env, dry_run, concurrency, eligible_posts,
                   notes_written_by_user, new_posts, handed, wk, gs_calls,
                   gs_last>>
    /\ UNCHANGED <<rlVars, rtVars, nwVars, swVars, exVars, tgVars, vpVars, srVars>>

\* line 116: get_posts_eligible_for_notes; an exception goes to the handler
\* of lines 162-167, which ends the process with exit(1)
M_GetEligible(raised, e) ==
    /\ mn_pc = "fetch"
    /\ IF raised
       THEN /\ e = <<>>
            /\ mn_pc' = "critical"
            /\ mn_log' = [mn_log EXCEPT !.fetch = "failed"]
            /\ UNCHANGED eligible_posts
       ELSE /\ mn_pc' = "notes"
            /\ mn_log' = [mn_log EXCEPT !.fetch = "ok"]
            /\ eligible_posts' = e
    /\ UNCHANGED <<gist, gist_env, dry_run, concurrency, processed_post_ids,
                   notes_written_by_user, new_posts, handed, wk, gs_calls,
                   gs_last>>
    /\ UNCHANGED <<rlVars, rtVars, nwVars, swVars, exVars, tgVars, vpVars, srVars>>

\* line 119: get_notes_written_by_user never raises and returns a set
M_GetNotesWritten(v) ==
    /\ mn_pc = "notes"
    /\ notes_written_by_user' = v
    /\ mn_pc' = "print"
    /\ UNCHANGED <<gist, gist_env, dry_run, concurrency, processed_post_ids,
                   eligible_posts, mn_log, new_posts, handed, wk, gs_calls,
                   gs_last>>
    /\ UNCHANGED <<rlVars, rtVars, nwVars, swVars, exVars, tgVars, vpVars, srVars>>

\* lines 121-127 and 162-167: .get("data", []) on the value of line 119; on
\* a set it raises AttributeError, which the handler of line 162 turns into
\* the critical error and exit(1); on a dict the notes are printed and
\* line 127 returns
M_PrintNotes ==
    /\ mn_pc = "print"
    /\ mn_pc' = IF HasGet(notes_written_by_user) THEN "returned" ELSE "critical"
    /\ UNCHANGED <<gist, gist_env, dry_run, concurrency, processed_post_ids,
                   eligible_posts, notes_written_by_user, mn_log, new_posts,
                   handed, wk, gs_calls, gs_last>>
    /\ UNCHANGED <<rlVars, rtVars, nwVars, swVars, exVars, tgVars, vpVars, srVars>>

NextMain ==
    \/ \E dry \in BOOLEAN, conc \in Concurrencies : M_Start(dry, conc)
    \/ \E o \in LookupOutcomes : M_GetProcessed(o)
    \/ \E raised \in BOOLEAN, e \in EligibleLists : M_GetEligible(raised, e)
    \/ \E v \in NotesWritten : M_GetNotesWritten(v)
    \/ M_PrintNotes

InitMain == InitCore({Main}) /\ InitStore /\ InitMainLocals
SpecMain == InitMain /\ [][NextMain]_vars

(***************************************************************************)
(* Part 7: the batch (main.py lines 130-160) with _worker (lines 14-97)    *)
(* and add_processed_post_id, taken from line 130 with any eligible_posts  *)
(* and any processed_post_ids that the lookup of line 112 can return.      *)
(***************************************************************************)

\* lines 130-148: the posts not yet processed; in the thread-pool mode all
\* of them are submitted to the executor at once.  eligible_posts and
\* processed_post_ids are not used after line 138.
M_Filter ==
    /\ mn_pc = "filter"
    /\ new_posts' = NewPosts(eligible_posts, processed_post_ids)
    /\ wk' = [i \in 1..Len(NewPosts(eligible_posts, processed_post_ids)) |-> NoWorker]
    /\ mn_pc' = IF NewPosts(eligible_posts, processed_post_ids) = <<>> THEN "returned"
                ELSE IF concurrency > 1 THEN "pool" ELSE "loop"
    /\ eligible_posts' = <<>>
    /\ processed_post_ids' = {}
    /\ UNCHANGED <<gist, gist_env, dry_run, concurrency, notes_written_by_user,
                   mn_log, handed, gs_calls, gs_last>>
    /\ UNCHANGED <<rlVars, rtVars, nwVars, swVars, exVars, tgVars, vpVars, srVars>>

\* lines 157-160: the sequential loop calls _worker for the next post once
\* the call before it is over; an exception leaving _worker would reach the
\* handler of line 162
M_LoopStep ==
    /\ mn_pc = "loop"
    /\ LET n == Len(handed) IN
       /\ n > 0 => wk[n].pc \in {"returned", "raised"}
       /\ IF n > 0 /\ wk[n].pc = "raised"
          THEN /\ mn_pc' = "critical"
               /\ UNCHANGED <<wk, handed>>
          ELSE IF n < Len(new_posts)
          THEN /\ wk' = [i \in 1..Len(wk) |->
                           IF i = n + 1 THEN [wk[i] EXCEPT !.pc = "research"]
                           ELSE IF i = n THEN Joined(wk[i])
                           ELSE wk[i]]
               /\ handed' = Append(handed, new_posts[n + 1])
               /\ UNCHANGED mn_pc
          ELSE /\ wk' = [wk EXCEPT ![n] = Joined(wk[n])]
               /\ mn_pc' = "returned"
               /\ UNCHANGED handed
    /\ UNCHANGED <<gist, gist_env, dry_run, concurrency, processed_post_ids,
                   eligible_posts, notes_written_by_user, mn_log, new_posts,
                   gs_calls, gs_last>>
    /\ UNCHANGED <<rlVars, rtVars, nwVars, swVars, exVars, tgVars, vpVars, srVars>>

\* the _worker calls that occupy a thread of the pool
Running ==
    { i \in 1..Len(wk) : wk[i].pc \in {"research", "submit", "add", "patch", "log"} }

\* line 145: a thread of the pool (max_workers = concurrency) takes the
\* oldest submitted task and calls _worker
W_PoolStart(i) ==
    /\ mn_pc = "pool"
    /\ i \in 1..Len(wk)
    /\ wk[i].pc = "queued"
    /\ \A j \in 1..(i - 1) : wk[j].pc # "queued"
    /\ Cardinality(Running) < concurrency
    /\ wk' = [wk EXCEPT ![i].pc = "research"]
    /\ handed' = Append(handed, new_posts[i])
    /\ UNCHANGED <<gist, gist_env, mn_pc, dry_run, concurrency,
                   processed_post_ids, eligible_posts, notes_written_by_user,
                   mn_log, new_posts, gs_calls, gs_last>>
    /\ UNCHANGED <<rlVars, rtVars, nwVars, swVars, exVars, tgVars, vpVars, srVars>>

\* lines 150-155 and 160: future.result() of the next future, in order; an
\* exception of the worker is caught at line 153
M_Join ==
    /\ mn_pc = "pool"
    /\ \E i \in 1..Len(wk) :
          /\ \A j \in 1..(i - 1) : wk[j].pc = "joined"
          /\ wk[i].pc \in {"returned", "raised"}
          /\ wk' = [wk EXCEPT ![i] = Joined(wk[i])]
          /\ mn_pc' = IF i = Len(wk) THEN "returned" ELSE "pool"
    /\ UNCHANGED <<gist, gist_env, dry_run, concurrency, processed_post_ids,
                   eligible_posts, notes_written_by_user, mn_log, new_posts,
                   handed, gs_calls, gs_last>>
    /\ UNCHANGED <<rlVars, rtVars, nwVars, swVars, exVars, tgVars, vpVars, srVars>>

\* lines 22-52, 70-76 and 88-97: research_post_and_write_note returns nr or
\* raises; the worker decides what to do with the result, its outer handler
\* what to do with the exception
W_Research(i, raised, nr) ==
    /\ i \in 1..Len(wk)
    /\ wk[i].pc = "research"
    /\ raised => nr = NoResult
    /\ wk' = [wk EXCEPT ![i] =
          IF raised
          THEN [@ EXCEPT !.pc = IF WorkerCatch("research") = "returned"
                               THEN "log" ELSE "raised",
                         !.caught = TRUE]
          ELSE IF ShouldSubmit(nr, dry_run)
          THEN [@ EXCEPT !.pc = "submit", !.note_result = nr]
          ELSE IF IsPermanent(nr, dry_run)
          THEN [@ EXCEPT !.pc = "add", !.note_result = nr,
                         !.should_add_to_gist = TRUE]
          ELSE [@ EXCEPT !.pc = "log", !.note_result = nr]]
    /\ UNCHANGED <<gist, gist_env, mn_pc, dry_run, concurrency,
                   processed_post_ids, eligible_posts, notes_written_by_user,
                   mn_log, new_posts, handed, gs_calls, gs_last>>
    /\ UNCHANGED <<rlVars, rtVars, nwVars, swVars, exVars, tgVars, vpVars, srVars>>

\* lines 53-67: submit_note returns or raises an exception with message o
W_Submit(i, o) ==
    /\ i \in 1..Len(wk)
    /\ wk[i].pc = "submit"
    /\ wk' = [wk EXCEPT ![i] =
          IF o = "ok" \/ IsAlreadyCreated(o)
          THEN [@ EXCEPT !.pc = "add", !.submit = o, !.submits = @ + 1,
                         !.should_add_to_gist = TRUE]
          ELSE [@ EXCEPT !.pc = "log", !.submit = o, !.submits = @ + 1]]
    /\ UNCHANGED <<gist, gist_env, mn_pc, dry_run, concurrency,
                   processed_post_ids, eligible_posts, notes_written_by_user,
                   mn_log, new_posts, handed, gs_calls, gs_last>>
    /\ UNCHANGED <<rlVars, rtVars, nwVars, swVars, exVars, tgVars, vpVars, srVars>>

\* main.py lines 79-83 and gist_util.py lines 61-73, 103-105: the first half
\* of add_processed_post_id: the credentials and the current IDs
W_AddLookup(i, o) ==
    /\ i \in 1..Len(wk)
    /\ wk[i].pc = "add"
    /\ wk' = [wk EXCEPT ![i] =
          IF ~gist_env
          THEN [@ EXCEPT !.pc = "log", !.added = "False"]
          ELSE IF new_posts[i] \in LookupResult(gist_env, o, gist)
          THEN [@ EXCEPT !.pc = "log", !.added = "True", !.lookup = "ok"]
          ELSE [@ EXCEPT !.pc = "patch",
                         !.lookup = IF o = "ok" THEN "ok" ELSE "failed",
                         !.current_post_ids = LookupResult(gist_env, o, gist)]]
    /\ UNCHANGED <<gist, gist_env, mn_pc, dry_run, concurrency,
                   processed_post_ids, eligible_posts, notes_written_by_user,
                   mn_log, new_posts, handed, gs_calls, gs_last>>
    /\ UNCHANGED <<rlVars, rtVars, nwVars, swVars, exVars, tgVars, vpVars, srVars>>

\* gist_util.py lines 74-115: the PATCH with the IDs read before plus the
\* new one; a failure is caught and False is returned
W_AddPatch(i, o) ==
    /\ i \in 1..Len(wk)
    /\ wk[i].pc = "patch"
    /\ gist' = PatchedStore(o, gist, wk[i].current_post_ids, new_posts[i])
    /\ wk' = [wk EXCEPT ![i] =
          [@ EXCEPT !.pc = "log", !.current_post_ids = {},
                    !.added = IF o = "ok" THEN "True" ELSE "False"]]
    /\ UNCHANGED <<gist_env, mn_pc, dry_run, concurrency,
                   processed_post_ids, eligible_posts, notes_written_by_user,
                   mn_log, new_posts, handed, gs_calls, gs_last>>
    /\ UNCHANGED <<rlVars, rtVars, nwVars, swVars, exVars, tgVars, vpVars, srVars>>

\* main.py lines 85-86 and 90-97: the log of the post is printed and
\* _worker returns
W_Return(i) ==
    /\ i \in 1..Len(wk)
    /\ wk[i].pc = "log"
    /\ wk' = [wk EXCEPT ![i] = Returned(wk[i])]
    /\ UNCHANGED <<gist, gist_env, mn_pc, dry_run, concurrency,
                   processed_post_ids, eligible_posts, notes_written_by_user,
                   mn_log, new_posts, handed, gs_calls, gs_last>>
    /\ UNCHANGED <<rlVars, rtVars, nwVars, swVars, exVars, tgVars, vpVars, srVars>>

NextBatch ==
    \/ M_Filter
    \/ M_LoopStep
    \/ \E i \in 1..MaxPosts : W_PoolStart(i)
    \/ M_Join
    \/ \E i \in 1..MaxPosts, raised \in BOOLEAN, nr \in WorkerResults \cup {NoResult} :
          W_Research(i, raised, nr)
    \/ \E i \in 1..MaxPosts, o \in SubmitOutcomes : W_Submit(i, o)
    \/ \E i \in 1..MaxPosts, o \in LookupOutcomes : W_AddLookup(i, o)
    \/ \E i \in 1..MaxPosts, o \in PatchOutcomes : W_AddPatch(i, o)
    \/ \E i \in 1..MaxPosts : W_Return(i)

InitBatch ==
    /\ InitCore({Main})
    /\ InitStore
    /\ mn_pc = "filter"
    /\ dry_run \in BOOLEAN
    /\ concurrency \in Concurrencies
    /\ processed_post_ids \in { LookupResult(gist_env, o, gist) : o \in LookupOutcomes }
    /\ eligible_posts \in DistinctSeqs(PostIds)
    /\ notes_written_by_user = [type |-> "none", ids |-> {}]
    /\ mn_log = [lookup |-> "none", fetch |-> "none"]
    /\ new_posts = <<>>
    /\ handed = <<>>
    /\ wk = <<>>

SpecBatch == InitBatch /\ [][NextBatch]_vars

(***************************************************************************)
(* Part 7: one _worker call (main.py lines 14-97) of the sequential loop,  *)
(* for every result research_post_and_write_note can return.               *)
(***************************************************************************)

\* main.py lines 157-160: the loop has just called _worker for the only new
\* post; the post may be in the Gist already when the lookup of line 112
\* failed
InitWorker ==
    /\ InitCore({Main})
    /\ InitStore
    /\ mn_pc = "loop"
    /\ dry_run \in BOOLEAN
    /\ concurrency = 1
    /\ processed_post_ids = {}
    /\ eligible_posts = <<>>
    /\ notes_written_by_user = [type |-> "none", ids |-> {}]
    /\ mn_log = [lookup |-> "none", fetch |-> "none"]
    /\ new_posts \in { <<p>> : p \in PostIds }
    /\ handed = new_posts
    /\ wk = <<[NoWorker EXCEPT !.pc = "research"]>>

NextWorker ==
    \/ \E raised \in BOOLEAN, nr \in AllWorkerResults \cup {NoResult} :
          W_Research(1, raised, nr)
    \/ \E o \in SubmitOutcomes : W_Submit(1, o)
    \/ \E o \in LookupOutcomes : W_AddLookup(1, o)
    \/ \E o \in PatchOutcomes : W_AddPatch(1, o)
    \/ W_Return(1)
    \/ M_LoopStep

SpecWorker == InitWorker /\ [][NextWorker]_vars

(***************************************************************************)
(* Part 7: the processed-ID store on its own: get_processed_post_ids and   *)
(* add_processed_post_id called one after the other by one thread.         *)
(***************************************************************************)

\* gist_util.py lines 7-53
GS_Get(o) ==
    /\ gs_calls < MaxGistCalls
    /\ gs_calls' = gs_calls + 1
    /\ gs_last' = [op |-> "get", id |-> 0,
                   lookup |-> IF gist_env /\ o = "ok" THEN "ok" ELSE "failed",
                   patch |-> "none", before |-> gist,
                   ret_ids |-> LookupResult(gist_env, o, gist), ret |-> "none"]
    /\ UNCHANGED <<gist, gist_env, mn_pc, dry_run, concurrency,
                   processed_post_ids, eligible_posts, notes_written_by_user,
                   mn_log, new_posts, handed, wk>>
    /\ UNCHANGED <<rlVars, rtVars, nwVars, swVars, exVars, tgVars, vpVars, srVars>>

\* gist_util.py lines 56-115; lo and po are how the GET and the PATCH end
GS_Add(id, lo, po) ==
    /\ gs_calls < MaxGistCalls
    /\ gs_calls' = gs_calls + 1
    /\ LET current == LookupResult(gist_env, lo, gist) IN
       IF ~gist_env
       THEN /\ lo = "ok" /\ po = "ok"
            /\ gs_last' = [op |-> "add", id |-> id, lookup |-> "none",
                           patch |-> "none", before |-> gist, ret_ids |-> {},
                           ret |-> "False"]
            /\ UNCHANGED gist
       ELSE IF id \in current
       THEN /\ po = "ok"
            /\ gs_last' = [op |-> "add", id |-> id,
                           lookup |-> IF lo = "ok" THEN "ok" ELSE "failed",
                           patch |-> "none", before |-> gist, ret_ids |-> {},
                           ret |-> "True"]
            /\ UNCHANGED gist
       ELSE /\ gist' = PatchedStore(po, gist, current, id)
            /\ gs_last' = [op |-> "add", id |-> id,
                           lookup |-> IF lo = "ok" THEN "ok" ELSE "failed",
                           patch |-> IF po = "ok" THEN "ok" ELSE "failed",
                           before |-> gist, ret_ids |-> {},
                           ret |-> IF po = "ok" THEN "True" ELSE "False"]
    /\ UNCHANGED <<gist_env, mn_pc, dry_run, concurrency,
                   processed_post_ids, eligible_posts, notes_written_by_user,
                   mn_log, new_posts, handed, wk>>
    /\ UNCHANGED <<rlVars, rtVars, nwVars, swVars, exVars, tgVars, vpVars, srVars>>

NextGist ==
    \/ \E o \in LookupOutcomes : GS_Get(o)
    \/ \E id \in PostIds, lo \in LookupOutcomes, po \in PatchOutcomes :
          GS_Add(id, lo, po)

InitGist == InitCore({Main}) /\ InitStore /\ InitMainLocals
SpecGist == InitGist /\ [][NextGist]_vars

(***************************************************************************)
(* Part 8: validate_page_content_with_gemini, applied to one page.         *)
(***************************************************************************)

\* lines 1076-1104: the Twitter/X check and _needs_current_verification,
\* which calls original_claim.lower() outside any try block
VP_Call(u, c, claim) ==
    /\ vp_pc = "idle"
    /\ vp_url' = u
    /\ vp_content' = c
    /\ vp_claim' = claim
    /\ IF IsDeletedPost(u, c)
       THEN /\ vp_result' = [NoVerdict EXCEPT !.why = "Eliminated/deleted Twitter/X post"]
            /\ vp_pc' = "returned"
       ELSE IF claim = "None"
       THEN /\ vp_pc' = "raised"
            /\ UNCHANGED vp_result
       ELSE /\ vp_pc' = "classify"
            /\ UNCHANGED vp_result
    /\ UNCHANGED vp_llm_calls
    /\ UNCHANGED <<rlVars, rtVars, nwVars, swVars, exVars, tgVars, mnVars, srVars>>

\* lines 1143-1158: the classifier call; r is the reply of
\* get_gemini_response, which returns a string or raises
VP_Classify(r) ==
    /\ vp_pc = "classify"
    /\ vp_llm_calls' = vp_llm_calls + 1
    /\ vp_result' =
          IF r = "raise"
          THEN [is_valid |-> FALSE, why |-> "Error validating with Gemini", reply |-> r]
          ELSE IF ReplyVerdict(r)
          THEN [is_valid |-> TRUE, why |-> "VALID", reply |-> r]
          ELSE IF StripReply(r) = "INVALID: 404"
          THEN [is_valid |-> FALSE, why |-> "INVALID", reply |-> r]
          ELSE [is_valid |-> FALSE, why |-> "Unexpected validation response format",
                reply |-> r]
    /\ vp_pc' = "returned"
    /\ UNCHANGED <<vp_url, vp_content, vp_claim>>
    /\ UNCHANGED <<rlVars, rtVars, nwVars, swVars, exVars, tgVars, mnVars, srVars>>

NextValidate ==
    \/ \E u \in ValidatedUrls, c \in Contents, claim \in Claims : VP_Call(u, c, claim)
    \/ \E r \in ValidateReplies : VP_Classify(r)

InitValidate == InitRLWith({Main})
SpecValidate == InitValidate /\ [][NextValidate]_vars

(***************************************************************************)
(* Part 9: get_gemini_search_response, called once per post.               *)
(***************************************************************************)

\* lines 873-934: the call starts and takes the search query from the prompt
SR_Call(q) ==
    /\ sr_pc \in {"idle", "returned", "raised"}
    /\ sr_calls < MaxPromptCalls
    /\ sr_calls' = sr_calls + 1
    /\ sr_query' = q
    /\ sr_web_results' = NoWebResults
    /\ sr_enhanced' = EnhancedPrompt(NoWebResults)
    /\ sr_pc' = IF q.empty THEN "request" ELSE "search"
    /\ UNCHANGED <<rlVars, rtVars, nwVars, swVars, exVars, tgVars, mnVars, vpVars>>

\* lines 930-940: the web search and the test of its outcome
SR_WebSearch(text) ==
    /\ sr_pc = "search"
    /\ text \in WebSearchTexts(sr_query)
    /\ sr_web_results' = IF IsDiscarded(text) THEN NoWebResults ELSE text
    /\ sr_pc' = "request"
    /\ UNCHANGED <<sr_query, sr_enhanced, sr_calls>>
    /\ UNCHANGED <<rlVars, rtVars, nwVars, swVars, exVars, tgVars, mnVars, vpVars>>

\* lines 943-957: the prompt is built and sent; the gateway returns a
\* string or raises
SR_Request(raised) ==
    /\ sr_pc = "request"
    /\ sr_enhanced' = EnhancedPrompt(sr_web_results)
    /\ sr_pc' = IF raised THEN "raised" ELSE "returned"
    /\ UNCHANGED <<sr_query, sr_web_results, sr_calls>>
    /\ UNCHANGED <<rlVars, rtVars, nwVars, swVars, exVars, tgVars, mnVars, vpVars>>

NextPrompt ==
    \/ \E q \in SearchQueries : SR_Call(q)
    \/ \E text \in [kind : {"results", "all_failed"}, marks : SUBSET FailureMarkers] :
          SR_WebSearch(text)
    \/ \E raised \in BOOLEAN : SR_Request(raised)

InitPrompt == InitRLWith({Main})
SpecPrompt == InitPrompt /\ [][NextPrompt]_vars

(***************************************************************************)
(*                               Claims                                    *)
(***************************************************************************)

(***************************************************************************)
(* C1: research_post_and_write_note produces a note only from a non-empty  *)
(* valid_urls list.  Once verify_and_filter_links has returned an empty    *)
(* list (no URL extracted, or every URL rejected) the result is the        *)
(* no-valid-sources refusal and neither the note-writing call nor the      *)
(* tag-classification call is ever made.                                   *)
(***************************************************************************)
C1_NoteOnlyFromValidSources ==
    /\ (result.note # "None" \/ calls.note > 0 \/ calls.tags > 0
          \/ nw_pc \in {"write", "tags"})
          => Len(valid_urls) > 0
    /\ (filtered # "unset" /\ Len(valid_urls) = 0)
          => /\ nw_pc = "done"
             /\ result.refusal = "NO VALID SOURCES FOUND"
             /\ result.note = "None"
             /\ result.error = "None"
             /\ calls.note = 0
             /\ calls.tags = 0

\* two URLs were fetched and both were rejected: the post is refused
C1_Witness ==
    /\ nw_pc = "done"
    /\ filtered = "None"
    /\ calls.fetch = 2
    /\ valid_urls = <<>>
    /\ result.refusal = "NO VALID SOURCES FOUND"

(***************************************************************************)
(* C2: every URL in valid_urls was fetched successfully (HTTP 200 with     *)
(* content) and judged VALID; a URL whose fetch failed (timeout,           *)
(* connection error, redirect loop, non-200 status) is recorded as invalid *)
(* and is never in valid_urls.                                             *)
(***************************************************************************)
C2_ValidOnlyIfFetched ==
    \A i \in 1..Len(url_log) :
       /\ url_log[i].valid => (url_log[i].fetch = "ok" /\ url_log[i].reply = "VALID")
       /\ url_log[i].fetch \in {"404", "403", "timeout"} => ~url_log[i].valid

(***************************************************************************)
(* C3: _retry_with_backoff never retries a permanent error.  When the      *)
(* exception being handled carries the CONTENT_FILTERED marker, or matches *)
(* no transient pattern, the handler raises at once: no sleep (the clock   *)
(* does not move), no further invocation, at every attempt index, also     *)
(* when the message contains a transient substring.                        *)
(***************************************************************************)
C3_Permanent(err) ==
    \/ "CONTENT_FILTERED:" \in err
    \/ \A tok \in err : tok \in {"retryDelay", "55s"}

C3_NoRetryOfPermanentError ==
    [][ (rt_pc = "except" /\ C3_Permanent(error_str))
           => /\ rt_pc' = "raised"
              /\ rt_result' = (IF "CONTENT_FILTERED:" \in error_str
                               THEN "raise_content_filtered" ELSE "raise_error")
              /\ clock' = clock
              /\ n_sleeps' = n_sleeps
              /\ n_calls' = n_calls
              /\ api_total' = api_total ]_vars

\* a content-filter block whose message also says "returned None response
\* text" ended the request on a retry attempt, after earlier transient errors
C3_Witness ==
    /\ rt_pc = "raised"
    /\ rt_result = "raise_content_filtered"
    /\ error_str = {"CONTENT_FILTERED:", "returned None response text"}
    /\ attempt >= 1
    /\ n_calls = attempt + 1
    /\ n_sleeps = attempt

(***************************************************************************)
(* C4: when every attempt fails with a transient error, the call is        *)
(* invoked exactly max_retries + 1 times, the loop sleeps exactly          *)
(* max_retries times and then a categorized final error is raised; the     *)
(* loop is bounded and the 'Unexpected error' fall-through is never        *)
(* reached.                                                                *)
(***************************************************************************)
C4_Transient(err) ==
    /\ "CONTENT_FILTERED:" \notin err
    /\ \E tok \in err : tok \notin {"retryDelay", "55s"}

C4_ExhaustedAfterMaxRetries ==
    /\ rt_result # "raise_unexpected"
    /\ n_calls <= max_retries + 1
    /\ n_sleeps <= max_retries
    /\ (rt_pc = "raised" /\ C4_Transient(error_str))
          => /\ n_calls = max_retries + 1
             /\ n_sleeps = max_retries
             /\ rt_result \in {"raise_unavailable", "raise_none_text",
                               "raise_rate_limit", "raise_temporary"}

\* the default three retries were used up by transient errors
C4_Witness ==
    /\ rt_pc = "raised"
    /\ max_retries = DefaultMaxRetries
    /\ C4_Transient(error_str)
    /\ n_calls = 4
    /\ n_sleeps = 3
    /\ rt_result = "raise_rate_limit"

(***************************************************************************)
(* C5: every invocation of the wrapped API call is immediately preceded by *)
(* its own _rate_limit call, retries included: between two invocations a   *)
(* _rate_limit call has returned.                                          *)
(***************************************************************************)
C5_RateLimitBeforeEveryAttempt ==
    /\ api_total >= 1 => api_rl >= 1
    /\ api_total >= 2 => api_rl > api_prev_rl

(***************************************************************************)
(* C6: in a single-threaded run every _rate_limit call returns at least    *)
(* min_request_interval after the timestamp recorded before it, stores the *)
(* time of its return as the new timestamp, and the timestamp never        *)
(* decreases.                                                              *)
(***************************************************************************)
C6_RateLimitSingleThread ==
    /\ \A i \in 1..Len(permits) :
          /\ permits[i].at - permits[i].before >= min_request_interval
          /\ permits[i].stored = permits[i].at
          /\ permits[i].stored >= permits[i].before
    /\ last_request_time =
          IF permits = <<>> THEN 0 ELSE permits[Len(permits)].stored

\* a second call that had to sleep has returned
C6_Witness ==
    /\ Len(permits) >= 2
    /\ permits[2].slept > 0
    /\ permits[2].at = permits[1].at + min_request_interval

(***************************************************************************)
(* C7: with two workers the unsynchronized read-sleep-write lets two calls *)
(* be permitted less than min_request_interval apart.  Every call still    *)
(* returns min_request_interval after the timestamp it read itself, and    *)
(* two permits closer than that always come from two threads of which the  *)
(* later one read the timestamp before the earlier one wrote it; the       *)
(* witness is such a pair, both having read the same old timestamp.        *)
(***************************************************************************)
C7_UnderDelayOnlyByRace ==
    /\ \A i \in 1..Len(permits) :
          permits[i].at >= permits[i].seen + min_request_interval
    /\ \A i, j \in 1..Len(permits) :
          (i < j /\ permits[j].at - permits[i].at < min_request_interval)
             => /\ permits[i].th # permits[j].th
                /\ permits[j].nread < i

C7_Witness ==
    \E i, j \in 1..Len(permits) :
       /\ i < j
       /\ permits[i].th # permits[j].th
       /\ permits[j].at - permits[i].at < min_request_interval
       /\ permits[i].seen = permits[j].seen
       /\ permits[j].nread < i

(***************************************************************************)
(* C8: research_post_and_write_note always ends by returning a NoteResult: *)
(* no failure inside the pipeline (a gateway call that raises during the   *)
(* search or the note-writing step included) escapes as an exception.      *)
(***************************************************************************)
C8_NoExceptionEscapes == nw_pc # "raised"

(***************************************************************************)
(* C9: every NoteResult returned by research_post_and_write_note has       *)
(* exactly one of error, refusal, note set.                                *)
(***************************************************************************)
C9_ExactlyOneOutcome ==
    nw_pc = "done" =>
       Cardinality({ f \in {"error", "refusal", "note"} : result[f] # "None" }) = 1

\* a note with its tags has been returned
C9_Witness ==
    /\ nw_pc = "done"
    /\ result.note = "note"
    /\ result.tags = <<"factual_error">>
    /\ result.refusal = "None"

(***************************************************************************)
(* C10: a post with empty (absent or whitespace-only) text and no media is *)
(* refused, and no LLM call, search call or page fetch is made for it.     *)
(***************************************************************************)
C10_EmptyPost(p) == p.text \in {"None", "blank"} /\ p.media = <<>>

C10_EmptyPostRefused ==
    (nw_pc # "idle" /\ C10_EmptyPost(post))
       => /\ nw_pc = "done"
          /\ result.refusal = "NO NOTE NEEDED: empty post"
          /\ result.note = "None"
          /\ result.error = "None"
          /\ calls = NoCalls

\* a post whose text is only whitespace has been refused
C10_Witness ==
    /\ nw_pc = "done"
    /\ post.text = "blank"
    /\ post.media = <<>>
    /\ result.refusal = "NO NOTE NEEDED: empty post"

(***************************************************************************)
(* C11: for a post whose media contain a video item, at any position,      *)
(* research_post_and_write_note returns a NoteResult with error set to the *)
(* unsupported-media message (note and refusal unset), and no search call  *)
(* and no LLM call is made for that post.                                  *)
(***************************************************************************)
C11_HasVideo(p) == \E i \in 1..Len(p.media) : p.media[i] = "video"

C11_VideoIsErrorWithoutCalls ==
    (nw_pc # "idle" /\ C11_HasVideo(post))
       => /\ calls.describe = 0
          /\ calls.web_search = 0
          /\ calls.search_llm = 0
          /\ calls.classify = 0
          /\ calls.note = 0
          /\ calls.tags = 0
          /\ nw_pc \in {"images", "done"}
          /\ nw_pc = "done" =>
                /\ result.error \in {"Video not supported yet", "Unsupported media type"}
                /\ result.note = "None"
                /\ result.refusal = "None"

(***************************************************************************)
(* C12: when the reply of the note-writing call contains "NO NOTE NEEDED"  *)
(* or "NOT ENOUGH EVIDENCE TO WRITE A GOOD COMMUNITY NOTE", the result is  *)
(* a NoteResult whose refusal is that reply and whose note is unset, and   *)
(* the tag-classification step is never run.                               *)
(***************************************************************************)
C12_RefusalReplyIsRefusal ==
    note_or_refusal_str \in {"NO NOTE NEEDED.", "NOT ENOUGH EVIDENCE"}
       => /\ nw_pc = "done"
          /\ result.refusal = note_or_refusal_str
          /\ result.note = "None"
          /\ result.error = "None"
          /\ calls.tags = 0
          /\ tag_retries = 0

\* valid sources were found, the note-writing call ran and declined
C12_Witness ==
    /\ nw_pc = "done"
    /\ note_or_refusal_str = "NOT ENOUGH EVIDENCE"
    /\ Len(valid_urls) > 0
    /\ calls.note = 1
    /\ result.refusal = "NOT ENOUGH EVIDENCE"

(***************************************************************************)
(* C13: in a single-threaded run search_web_for_recent_info never raises:  *)
(* an exception of an engine is swallowed and the next engine is tried,    *)
(* and when all three engines have failed the call returns the             *)
(* all-engines-failed sentinel string.                                     *)
(***************************************************************************)
C13_Failed(o) == o \in {"raised", "empty", "failure_text"}

C13_SearchNeverRaises ==
    /\ \A t \in workers : sw_pc[t] # "raised"
    /\ \A t \in workers :
          (sw_pc[t] = "engines" /\ Len(sw_tried[t]) > 0
              /\ sw_tried[t][Len(sw_tried[t])] = "raised")
             => sw_engine[t] = Len(sw_tried[t]) + 1
    /\ (sw_last.th # "none" /\ Len(sw_last.tried) = Len(search_engines)
          /\ \A i \in 1..Len(sw_last.tried) : C13_Failed(sw_last.tried[i]))
          => sw_last.text = AllFailedText(sw_last.query)

\* all three engines raised and the call returned the sentinel
C13_Witness ==
    /\ sw_last.th = Main
    /\ sw_last.tried = <<"raised", "raised", "raised">>
    /\ sw_last.text = AllFailedText(sw_last.query)
    /\ sw_pc[Main] = "idle"

(***************************************************************************)
(* C14: on a cache miss the engines are tried in the fixed order Google,   *)
(* RSS feeds, news scraper; engine k is invoked only if every earlier      *)
(* engine failed (raised, returned nothing, or returned a failure text);   *)
(* the text returned is the output of the first engine that did not fail,  *)
(* and no engine is invoked after it.                                      *)
(***************************************************************************)
C14_EnginesInOrder ==
    /\ \A t \in workers :
          sw_pc[t] \in {"engines", "all_failed"}
             => /\ \A i \in 1..Len(sw_tried[t]) : C13_Failed(sw_tried[t][i])
                /\ sw_pc[t] = "engines" => sw_engine[t] = Len(sw_tried[t]) + 1
                /\ sw_pc[t] = "all_failed" => Len(sw_tried[t]) = Len(search_engines)
    /\ (sw_last.th # "none" /\ ~sw_last.hit)
          => LET n == Len(sw_last.tried) IN
             /\ n \in 1..Len(search_engines)
             /\ \A i \in 1..(n - 1) : C13_Failed(sw_last.tried[i])
             /\ ~C13_Failed(sw_last.tried[n])
                   => sw_last.text = EngineText("results", n, sw_last.serial)
             /\ C13_Failed(sw_last.tried[n])
                   => /\ n = Len(search_engines)
                      /\ sw_last.text.kind = "all_failed"

\* Google returned a failure text, the RSS engine delivered, the scraper was
\* not asked
C14_Witness ==
    /\ sw_last.th = Main
    /\ ~sw_last.hit
    /\ sw_last.tried = <<"failure_text", "results">>
    /\ sw_last.text.engine = 2

(***************************************************************************)
(* C15: cache round trip.  When a search starts while the cache holds an   *)
(* entry for its (query, result count) key that is at most 300 s old, it   *)
(* returns the stored text and invokes no engine; when the entry is older  *)
(* than 300 s it is treated as absent and purged, and the engines are      *)
(* invoked again.                                                          *)
(***************************************************************************)
C15_Age(found, started) == started - found.ts

C15_CacheRoundTrip ==
    /\ (sw_last.th # "none" /\ sw_last.found # NoEntry
          /\ C15_Age(sw_last.found, sw_last.started) <= cache_expiry_seconds)
          => /\ sw_last.hit
             /\ sw_last.text = sw_last.found.text
             /\ sw_last.tried = <<>>
    /\ (sw_last.th # "none" /\ sw_last.found # NoEntry
          /\ C15_Age(sw_last.found, sw_last.started) > cache_expiry_seconds)
          => /\ ~sw_last.hit
             /\ Len(sw_last.tried) >= 1
             /\ sw_last.text # sw_last.found.text
                   \/ sw_last.text.kind = "all_failed"
    /\ \A t \in workers :
          (sw_pc[t] \in {"lookup", "engines", "all_failed"}
              /\ sw_found[t] # NoEntry
              /\ C15_Age(sw_found[t], sw_current_time[t]) > cache_expiry_seconds)
             => ~InCache(search_cache, cache_key[t])

\* results stored by the first call are returned by the second, which
\* starts exactly 300 s later
C15_Witness ==
    /\ sw_last.th = Main
    /\ sw_last.hit
    /\ sw_last.serial = 2
    /\ sw_last.text.kind = "results"
    /\ sw_last.text.call = 1
    /\ C15_Age(sw_last.found, sw_last.started) = cache_expiry_seconds

(***************************************************************************)
(* C16: a cache entry is created only when an engine returned usable       *)
(* results: a search in which every engine failed stores nothing, so the   *)
(* same query is not answered from the cache afterwards.                   *)
(***************************************************************************)
C16_OnlyResultsAreCached ==
    /\ \A k \in CacheKeys :
          InCache(search_cache, k) => search_cache[k].text.kind = "results"
    /\ (sw_last.th # "none" /\ sw_last.hit) => sw_last.text.kind = "results"

(***************************************************************************)
(* C17: the list extract_urls_from_text returns contains no URL twice,     *)
(* lists the URLs in the order of their first appearance in the text, and  *)
(* every URL in it begins with http:// or https://, also when the text     *)
(* mentions the same host both with and without a scheme.                  *)
(***************************************************************************)
C17_FirstMention(u) ==
    CHOOSE k \in 1..Len(ex_text) :
       /\ NormalizeUrl(CleanUrl(ex_text[k])) = u
       /\ \A j \in 1..(k - 1) : NormalizeUrl(CleanUrl(ex_text[j])) # u

C17_ExtractedUrlsUniqueOrdered ==
    ex_pc = "done" =>
       /\ \A i, j \in 1..Len(ex_urls) : i # j => ex_urls[i] # ex_urls[j]
       /\ \A i \in 1..Len(ex_urls) :
             /\ ex_urls[i].scheme \in {"http://", "https://"}
             /\ ~ex_urls[i].punct
       /\ \A i, j \in 1..Len(ex_urls) :
             i < j => C17_FirstMention(ex_urls[i]) < C17_FirstMention(ex_urls[j])
       /\ \A k \in 1..Len(ex_text) :
             \E i \in 1..Len(ex_urls) : ex_urls[i] = NormalizeUrl(CleanUrl(ex_text[k]))

(***************************************************************************)
(* C18: the wait before the retry that follows failed attempt a depends on *)
(* the error category: service unavailable 10, 30, 60 and from then on     *)
(* 120 s; rate limited 60, 120, 240 and from then on 300 s, or 55 s when   *)
(* the error reports a 55 s retry delay; empty response 15 + 10a s; any    *)
(* other transient error 20 + 15a s.  Service-unavailable waits never      *)
(* exceed 120 s and rate-limited waits never exceed 300 s.                 *)
(***************************************************************************)
C18_Category(err) ==
    IF "503" \in err \/ "UNAVAILABLE" \in err THEN "service_unavailable"
    ELSE IF "returned None response text" \in err THEN "empty_response"
    ELSE IF "429" \in err \/ "RESOURCE_EXHAUSTED" \in err THEN "rate_limited"
    ELSE "other_transient"

C18_Schedule(err, a) ==
    CASE C18_Category(err) = "service_unavailable" ->
            (IF a = 0 THEN 10 ELSE IF a = 1 THEN 30 ELSE IF a = 2 THEN 60 ELSE 120)
      [] C18_Category(err) = "rate_limited" ->
            (IF "retryDelay" \in err /\ "55s" \in err THEN 55
             ELSE IF a = 0 THEN 60 ELSE IF a = 1 THEN 120
             ELSE IF a = 2 THEN 240 ELSE 300)
      [] C18_Category(err) = "empty_response" -> 15 + 10 * a
      [] OTHER -> 20 + 15 * a

C18_WaitSchedule ==
    [][ (rt_pc = "except" /\ rt_pc' = "try")
           => /\ clock' - clock = C18_Schedule(error_str, attempt)
              /\ C18_Category(error_str) = "service_unavailable"
                    => clock' - clock <= 120
              /\ C18_Category(error_str) = "rate_limited"
                    => clock' - clock <= 300
              /\ n_sleeps' = n_sleeps + 1
              /\ attempt' = attempt + 1 ]_vars

\* the fourth retry of a rate-limited request: the wait was capped at 300 s
C18_Witness ==
    /\ rt_pc = "try"
    /\ attempt = 4
    /\ error_str = {"429", "RESOURCE_EXHAUSTED"}
    /\ n_sleeps = 4
    /\ clock = StartTime + 60 + 120 + 240 + 300

(***************************************************************************)
(* C19: the LLM gateway never returns a None or empty text as a successful *)
(* result: when the text of the model's response is None or the empty      *)
(* string, the gateway call raises instead of returning it.                *)
(***************************************************************************)
C19_NoEmptySuccess ==
    /\ rt_result # "returned_empty"
    /\ rt_pc = "returned" => rt_result = "returned_text"

(***************************************************************************)
(* C20: a failure to describe one photo (image download failed, content    *)
(* filter block, retries exhausted) never aborts the pipeline of the post: *)
(* _summarize_images puts a placeholder line for that image, goes on with  *)
(* the remaining media, and research_post_and_write_note proceeds to the   *)
(* search step; it neither returns an error nor raises because of it.      *)
(***************************************************************************)
C20_IsPhoto(m) == m \in {"photo", "photo_nourl"}

C20_PhotoFailureDoesNotAbort ==
    /\ nw_pc = "images"
          => /\ Len(images_summary) = media_i - 1
             /\ \A i \in 1..(media_i - 1) : C20_IsPhoto(post.media[i])
    /\ result.error # "None"
          => \E i \in 1..Len(post.media) : ~C20_IsPhoto(post.media[i])
    /\ nw_pc = "raised" => calls.search_llm > 0
    /\ (nw_pc \notin {"idle", "images"} /\ result.error = "None"
           /\ ~IsEmptyPost(post))
          => /\ Len(images_summary) = Len(post.media)
             /\ calls.search_llm > 0 \/ nw_pc = "search"

\* the download of the first photo failed, the LLM call for the second
\* raised; both got a placeholder and the search step is next
C20_Witness ==
    /\ nw_pc = "search"
    /\ post.media = <<"photo", "photo">>
    /\ images_summary = <<"error", "error">>
    /\ calls.image_get = 2
    /\ calls.describe = 1

(***************************************************************************)
(* C21: every note returned by research_post_and_write_note carries a      *)
(* non-empty list of misleading tags, each one a member of the             *)
(* MisleadingTag enumeration, whatever the tag-classification call         *)
(* replies, the reply {"misleading_tags": []} included.                    *)
(***************************************************************************)
C21_TagsNonEmptyAndKnown ==
    (nw_pc = "done" /\ result.note # "None")
       => /\ Len(result.tags) > 0
          /\ Range(result.tags) \subseteq MisleadingTags

(***************************************************************************)
(* C27: the note-writing prompt mentions only verified sources: no URL     *)
(* that verify_and_filter_links rejected (denylisted, 403/404 or judged    *)
(* INVALID) occurs in the search-results text given to the note-writing    *)
(* call.                                                                   *)
(***************************************************************************)
C27_Rejected(u) == u \in Range(urls) /\ u \notin Range(valid_urls)

C27_PromptOnlyVerifiedSources ==
    nw_pc = "write" => \A u \in NotePromptUrls : ~C27_Rejected(u)

(***************************************************************************)
(* C30: whenever valid_urls is empty, verify_and_filter_links returns      *)
(* (None, []), also when no URL could be extracted from the search text.   *)
(***************************************************************************)
C30_EmptyValidReturnsNone ==
    (filtered # "unset" /\ Len(valid_urls) = 0) => filtered = "None"

(***************************************************************************)
(* C22: get_misleading_tags makes at most 3 tag-classification requests    *)
(* and never raises.  When all 3 attempts fail (the LLM call raises, the   *)
(* reply holds no JSON, the key misleading_tags is missing, or a tag is    *)
(* outside the enumeration) it returns exactly the fallback tag            *)
(* missing_important_context.  It returns on the first attempt that parses *)
(* and makes no further request.                                           *)
(***************************************************************************)
C22_Failed(r) == r \in {"llm_error", "no_json", "missing_key", "bad_tag"}

C22_TagRetriesAndFallback ==
    /\ Len(tg_log) <= 3
    /\ tg_pc # "raised"
    /\ \A i \in 1..(Len(tg_log) - 1) : C22_Failed(tg_log[i])
    /\ tg_pc = "loop" => \A i \in 1..Len(tg_log) : C22_Failed(tg_log[i])
    /\ tg_pc = "returned" =>
          /\ Len(tg_log) >= 1
          /\ IF C22_Failed(tg_log[Len(tg_log)])
             THEN Len(tg_log) = 3 /\ tg_result = <<"missing_important_context">>
             ELSE tg_log[Len(tg_log)] = "tags" => tg_result = <<"factual_error">>

\* three failed attempts of different kinds, the last one a tag outside the
\* enumeration, end with the fallback tag
C22_Witness ==
    /\ tg_pc = "returned"
    /\ tg_log = <<"llm_error", "no_json", "bad_tag">>
    /\ tg_result = <<"missing_important_context">>

(***************************************************************************)
(* C23: a failure while one post is processed never ends the batch.        *)
(* _worker catches every exception raised by research_post_and_write_note, *)
(* by submit_note or by the processed-ID store and returns normally, so in *)
(* the sequential mode and in the thread-pool mode main does not stop with *)
(* a critical error and does not finish before _worker has been invoked    *)
(* for every post of the batch.                                            *)
(***************************************************************************)
C23_BatchSurvivesFailures ==
    /\ \A i \in 1..Len(wk) : wk[i].pc # "raised"
    /\ mn_pc # "critical"
    /\ (mn_pc = "returned" /\ Len(wk) > 0) => handed = new_posts
    /\ \A i \in 1..Len(handed) : handed[i] = new_posts[i]

\* sequential mode: the worker of the first post caught an exception and
\* returned, and the second post is being processed
C23_Witness ==
    /\ concurrency = 1
    /\ Len(wk) >= 2
    /\ wk[1].caught
    /\ wk[1].pc = "joined"
    /\ wk[2].pc = "research"
    /\ Len(handed) = 2

(***************************************************************************)
(* C24: when the processed-ID lookup and the fetch of the eligible posts   *)
(* succeed, main invokes _worker exactly once for each eligible post whose *)
(* ID is not in the processed-ID set, for no post whose ID is in it, and   *)
(* then finishes normally, without a critical error.                       *)
(***************************************************************************)
C24_Invocations(id) == Cardinality({ i \in 1..Len(handed) : handed[i] = id })

C24_EveryNewPostProcessedOnce ==
    (mn_pc \in {"returned", "critical"} /\ mn_log.lookup = "ok" /\ mn_log.fetch = "ok")
       => /\ mn_pc = "returned"
          /\ \A id \in PostIds :
                C24_Invocations(id) =
                   IF id \in Range(eligible_posts) /\ id \notin processed_post_ids
                   THEN 1 ELSE 0

(***************************************************************************)
(* C25: when submit_note raises an error whose message contains "already   *)
(* created a note" (in any letter case), _worker treats it as already      *)
(* submitted: the exception does not propagate and the post is marked      *)
(* processed (add_processed_post_id is called for it).  A submission error *)
(* without that substring is logged and the post is not marked processed.  *)
(***************************************************************************)
C25_Benign(m) == m \in {"already created a note", "User Already Created A Note"}

C25_AlreadyCreatedIsBenign ==
    \A i \in 1..Len(wk) :
       /\ C25_Benign(wk[i].submit)
             => /\ wk[i].should_add_to_gist
                /\ wk[i].pc \in {"add", "patch", "log"}
                /\ wk[i].pc = "log" => wk[i].added \in {"True", "False"}
       /\ wk[i].submit = "exit status 1"
             => /\ ~wk[i].should_add_to_gist
                /\ wk[i].pc = "log"
                /\ wk[i].added = "none"

\* the message had the phrase in capitals; the ID of the post is now stored
C25_Witness ==
    \E i \in 1..Len(wk) :
       /\ wk[i].submit = "User Already Created A Note"
       /\ wk[i].pc = "log"
       /\ wk[i].added = "True"
       /\ new_posts[i] \in gist

(***************************************************************************)
(* C26: failures of the processed-ID store never cause a post to be        *)
(* dropped.  If the lookup fails (missing credentials, network or HTTP     *)
(* error, malformed JSON) get_processed_post_ids returns the empty set     *)
(* without raising, so every eligible post counts as not yet processed; if *)
(* the write fails add_processed_post_id returns False without raising and *)
(* the stored set is unchanged.                                            *)
(***************************************************************************)
C26_StoreFailuresAreSafe ==
    /\ (gs_last.op = "get" /\ gs_last.lookup = "failed")
          => /\ gs_last.ret_ids = {}
             /\ gist = gs_last.before
             /\ \A e \in EligibleLists : NewPosts(e, gs_last.ret_ids) = e
    /\ (gs_last.op = "add" /\ (gs_last.patch = "failed" \/ ~gist_env))
          => /\ gs_last.ret = "False"
             /\ gist = gs_last.before
    /\ (gs_last.op = "add" /\ gs_last.ret = "False") => gist = gs_last.before

\* a PATCH for an ID that was not stored failed
C26_Witness ==
    /\ gs_last.op = "add"
    /\ gs_last.patch = "failed"
    /\ gs_last.id \notin gist
    /\ gist # {}

(***************************************************************************)
(* C28: with dry_run set, the worker never calls submit_note and never     *)
(* writes to the processed-ID store, whatever the NoteResult is.  With     *)
(* dry_run unset, submit_note is called at most once per post, and only    *)
(* when the result has a note and neither a refusal nor an error.          *)
(***************************************************************************)
C28_NoteOnly(nr) == nr.note # "None" /\ nr.refusal = "None" /\ nr.error = "None"

C28_DryRunHasNoEffects ==
    /\ \A i \in 1..Len(wk) :
          /\ dry_run => /\ wk[i].pc \notin {"submit", "add", "patch"}
                         /\ wk[i].submits = 0
                         /\ wk[i].submit = "none"
                         /\ wk[i].added = "none"
          /\ wk[i].submits <= 1
          /\ (wk[i].pc = "submit" \/ wk[i].submits > 0)
                => (~dry_run /\ C28_NoteOnly(wk[i].note_result))
    /\ \A nr \in WorkerResults, dry \in BOOLEAN :
          TemplateSubmits(nr, dry) => (~dry /\ C28_NoteOnly(nr))

\* a dry run in which a note was written and the worker is about to return
C28_Witness ==
    /\ dry_run
    /\ \E i \in 1..Len(wk) :
          /\ wk[i].pc = "log"
          /\ wk[i].note_result.note = "note"

(***************************************************************************)
(* C29: validate_page_content_with_gemini marks a page invalid without     *)
(* calling the LLM classifier whenever the host of the URL is a recognized *)
(* Twitter/X host and the fetched body contains, in any letter case, one   *)
(* of the deleted/suspended/not-found phrases.                             *)
(***************************************************************************)
C29_TwitterHost(u) ==
    u.host \in {"x.com", "X.com", "www.twitter.com", "Mobile.Twitter.com"}

C29_HasDeletedPhrase(c) ==
    c.phrase \in {"this tweet was deleted", "tweet not found", "try again"}

C29_DeletedPostRejectedWithoutLlm ==
    (vp_pc # "idle" /\ C29_TwitterHost(vp_url) /\ C29_HasDeletedPhrase(vp_content))
       => /\ vp_pc = "returned"
          /\ ~vp_result.is_valid
          /\ vp_llm_calls = 0

\* a page of mobile.twitter.com, host and phrase spelled with capitals, for
\* a post without text
C29_Witness ==
    /\ vp_pc = "returned"
    /\ vp_url.host = "Mobile.Twitter.com"
    /\ vp_content = [phrase |-> "tweet not found", lower |-> FALSE]
    /\ vp_claim = "None"
    /\ ~vp_result.is_valid
    /\ vp_llm_calls = 0

(***************************************************************************)
(* C31: valid_urls of verify_and_filter_links is exactly the subsequence,  *)
(* in the original order, of the extracted URLs that are not denylisted,   *)
(* did not fail with HTTP 403/404 and were judged VALID by the classifier. *)
(* A denylisted URL causes neither a fetch nor a classifier call, a        *)
(* 403/404 URL causes no classifier call, and any other fetch failure is   *)
(* passed on to the classifier.                                            *)
(***************************************************************************)
C31_Denylisted(u) == u = "x"

C31_HardFailure(f) == f \in {"404", "403"}

\* the URL at position i was not denylisted, its fetch was no 403/404 and
\* the classifier said VALID
C31_Accepted(i) ==
    /\ ~C31_Denylisted(urls[i])
    /\ ~C31_HardFailure(url_log[i].fetch)
    /\ url_log[i].reply = "VALID"

\* the accepted URLs among the first n, in order
RECURSIVE C31_Subsequence(_)
C31_Subsequence(n) ==
    IF n = 0 THEN <<>>
    ELSE IF C31_Accepted(n) THEN Append(C31_Subsequence(n - 1), urls[n])
    ELSE C31_Subsequence(n - 1)

C32_ConsecutiveCallsSpaced ==
    [][(api_total' = api_total + 1 /\ api_at >= 0)
          => api_at' - api_at >= min_request_interval]_vars

(***************************************************************************)
(* C33: after add_processed_post_id(p) has returned True the store holds p *)
(* and every ID it held before the call, also when the read that precedes  *)
(* the write failed; and marking an ID that is already stored writes       *)
(* nothing and leaves the store as it was.                                 *)
(***************************************************************************)
C33_AddKeepsStoredIds ==
    (gs_last.op = "add" /\ gs_last.ret = "True") =>
       /\ gs_last.id \in gist
       /\ gs_last.before \subseteq gist
       /\ gs_last.id \in gs_last.before =>
             (gs_last.patch = "none" /\ gist = gs_last.before)

(***************************************************************************)
(* C34: when two workers of the thread pool call add_processed_post_id     *)
(* concurrently with distinct IDs and both calls return True, the store    *)
(* holds both IDs afterwards: no interleaving of the two read-modify-write *)
(* sequences loses an update.  (Both reads succeeded, so that the loss of  *)
(* C33 is not what is observed.)                                           *)
(***************************************************************************)
C34_AddedTrue(i) ==
    wk[i].pc = "log" /\ wk[i].added = "True" /\ wk[i].lookup = "ok"

C34_NoLostUpdate ==
    \A i, j \in 1..Len(wk) :
       (i # j /\ concurrency > 1 /\ C34_AddedTrue(i) /\ C34_AddedTrue(j))
          => {new_posts[i], new_posts[j]} \subseteq gist

(***************************************************************************)
(* C36: _worker marks a post as processed (calls add_processed_post_id for *)
(* its ID) if and only if dry_run is off and the note was submitted, or    *)
(* the submission failed with the already-created error, or the error      *)
(* contains "Video not supported yet", or the refusal contains "NO NOTE    *)
(* NEEDED".  For a "NO VALID SOURCES FOUND" or "NOT ENOUGH EVIDENCE"       *)
(* refusal, any other error, any other submission failure and an unhandled *)
(* exception the store is left as it was.  When the call returns True the  *)
(* ID is in the store, and the store changes for no other reason.          *)
(***************************************************************************)
C36_Permanent(w) ==
    /\ ~dry_run
    /\ ~w.caught
    /\ \/ w.submit = "ok"
       \/ w.submit \in {"already created a note", "User Already Created A Note"}
       \/ w.note_result.error = "Video not supported yet"
       \/ w.note_result.refusal \in {"NO NOTE NEEDED.", "NO NOTE NEEDED: empty post"}

C36_AddedIffPermanent ==
    /\ [](\A i \in 1..Len(wk) :
            wk[i].pc = "log" =>
               /\ wk[i].should_add_to_gist <=> C36_Permanent(wk[i])
               /\ wk[i].added # "none" <=> wk[i].should_add_to_gist
               /\ wk[i].added = "True" => new_posts[i] \in gist)
    /\ [][gist' # gist =>
            \E i \in 1..Len(wk) :
               /\ wk[i].pc = "patch"
               /\ wk[i].should_add_to_gist
               /\ C36_Permanent(wk[i])
               /\ gist' = wk[i].current_post_ids \cup {new_posts[i]}]_vars

\* a video post, not a dry run: the worker has marked it as processed and
\* the store holds its ID
C36_Witness ==
    /\ wk # <<>>
    /\ wk[1].pc = "log"
    /\ ~dry_run
    /\ wk[1].note_result.error = "Video not supported yet"
    /\ wk[1].should_add_to_gist
    /\ wk[1].added = "True"
    /\ gist = {1, 2}
    /\ new_posts = <<2>>
    /\ wk[1].lookup = "ok"

(***************************************************************************)
(* C35: search_web_for_recent_info never raises when several worker        *)
(* threads call it at the same time: no interleaving of the unsynchronized *)
(* purge of expired entries (collect the expired keys, then delete each)   *)
(* with the purge or the insert of another thread makes a call fail.       *)
(***************************************************************************)
C35_ConcurrentSearchNeverRaises ==
    Cardinality(workers) > 1 => \A t \in workers : sw_pc[t] \notin {"raised"}

(***************************************************************************)
(* C38: a cache hit leaves the entry unchanged: it neither refreshes the   *)
(* timestamp nor invokes an engine.  The timestamp stored with an entry is *)
(* the time at which the call that created it started, so a cached text is *)
(* never served by a call that starts more than 300 s after the start of   *)
(* the call that produced it, however often it is hit.                     *)
(***************************************************************************)
C38_HitLeavesEntryUnchanged ==
    /\ []((sw_last.th # "none" /\ sw_last.hit) =>
             /\ search_cache[sw_last.key] = sw_last.found
             /\ sw_last.tried = <<>>
             /\ sw_last.text = sw_last.found.text
             /\ sw_last.started - sw_last.found.ts <= cache_expiry_seconds)
    /\ [][\A k \in CacheKeys :
             (search_cache'[k] # search_cache[k] /\ search_cache'[k] # NoEntry) =>
                /\ sw_pc[Main] \in {"engines", "all_failed"}
                /\ cache_key[Main] = k
                /\ search_cache'[k].ts = sw_current_time[Main]
                /\ ~sw_last'.hit]_vars

\* the second call in a row served from an entry stored 300 s before it
\* started; the first call was a hit as well, since the cache holds nothing
\* stored during the run
C38_Witness ==
    /\ sw_last.th = Main
    /\ sw_last.hit
    /\ sw_last.serial = 2
    /\ sw_last.found = StoredEarlier
    /\ sw_last.started - sw_last.found.ts = cache_expiry_seconds
    /\ \A k \in CacheKeys : search_cache[k] \in {NoEntry, StoredEarlier}

(***************************************************************************)
(* C39: validate_page_content_with_gemini returns valid if and only if the *)
(* classifier's reply, with surrounding whitespace removed, starts with    *)
(* "VALID:".  A reply starting with "INVALID:", a reply in another format  *)
(* and an exception of the LLM gateway all give an invalid verdict, and no *)
(* failure of the gateway leaves the validator as an exception.            *)
(***************************************************************************)
C39_StartsWithValid(r) == r \in {"VALID: good", "  VALID: padded"}

C39_ValidIffReplyStartsWithValid ==
    /\ (vp_pc = "returned" /\ vp_llm_calls > 0) =>
          (vp_result.is_valid <=> C39_StartsWithValid(vp_result.reply))
    /\ (vp_pc = "returned" /\ vp_llm_calls = 0) => ~vp_result.is_valid
    /\ vp_llm_calls > 0 => vp_pc = "returned"

\* a reply with leading blanks is accepted
C39_Witness ==
    /\ vp_pc = "returned"
    /\ vp_llm_calls = 1
    /\ vp_result.reply = "  VALID: padded"
    /\ vp_result.is_valid

(***************************************************************************)
(* C37: when every search engine has failed, get_gemini_search_response    *)
(* discards the search outcome and sends the model the original prompt     *)
(* without a web-search-results section: the all-engines-failed message is *)
(* never embedded in the prompt as current web search results.             *)
(***************************************************************************)
C37_SentinelNeverEmbedded ==
    sr_pc \in {"returned", "raised"} =>
       ~(sr_enhanced.section /\ sr_enhanced.web.kind = "all_failed")

====
